---------------------------- MODULE Spec2Model ----------------------------
(***************************************************************************)
(* libmount: the /proc/PID/mountinfo parser (src/src/mountinfo.rs) and the *)
(* flag-preserving remount (src/src/remount.rs).                           *)
(*                                                                         *)
(* Byte strings (&[u8], OsStr, Path) are sequences of byte values.  A      *)
(* MsFlags bitset is the set of the values of its set bits, so `a | b` is  *)
(* union and `a & !b` is set difference.  An unsigned integer (c_ulong) is *)
(* its canonical decimal numeral, a sequence of digit bytes without        *)
(* leading zeros, so that the 64-bit range is represented exactly.         *)
(***************************************************************************)
EXTENDS Integers, Sequences, FiniteSets, TLC

VARIABLES
    pc,         \* position of the caller in the operation being run
    input,      \* how `content` was laid out: the lines, the line ending
    content,    \* the buffer handed to Parser::new
    data,       \* Parser.data: the slice not consumed yet
    row_num,    \* Parser.row_num
    exhausted,  \* Parser.exhausted
    items,      \* what next() has returned so far, in order
    path,       \* the target path (&Path argument, Remount.path)
    flags,      \* `flags` of get_mountpoint_flags_from
    ret,        \* the value the operation returned
    self_flags, \* Remount.flags: the three-valued overrides
    mounts,     \* the kernel's mount table
    cwd,        \* what current_dir() returned
    mount_path, \* `mount_path` of get_mountpoint_flags
    found,      \* the flags get_mountpoint_flags returned to bare_remount
    submitted,  \* the arguments of the mount(2) call bare_remount issued
    base,       \* the MsFlags argument of apply_to_flags
    out         \* the MsFlags apply_to_flags returned

parserVars  == <<data, row_num, exhausted>>
vars == <<pc, input, content, data, row_num, exhausted, items, path, flags,
          ret, self_flags, mounts, cwd, mount_path, found, submitted, base,
          out>>

---------------------------------------------------------------------------
(* Bytes *)

TAB     == 9
LF      == 10
CR      == 13
SP      == 32
HASH    == 35
PLUS    == 43
COMMA   == 44
DASH    == 45
DOT     == 46
SLASH   == 47
D0      == 48
D7      == 55
D9      == 57
COLON   == 58
BSLASH  == 92
REPLACEMENT_CHARACTER == 65533

\* "18446744073709551615": c_ulong::MAX of a 64-bit target
ULONG_MAX == <<49,56,52,52,54,55,52,52,48,55,51,55,48,57,53,53,49,54,49,53>>

\* the one element of a singleton set.  A value is bound to a name by
\* `x \in {e}`, which evaluates e once however often x is then read.
Only(S) == CHOOSE x \in S : TRUE

None == [tag |-> "None"]
Some(v) == [tag |-> "Some", v |-> v]

---------------------------------------------------------------------------
(* Slices *)

\* v[i..] with a 0-based i, as a Rust slice
From(v, i) == SubSeq(v, i + 1, Len(v))

\* v[..i] with a 0-based i
Upto(v, i) == SubSeq(v, 1, i)

starts_with(v, needle) ==
    /\ Len(needle) <= Len(v)
    /\ SubSeq(v, 1, Len(needle)) = needle

\* data.iter().position(|c| *c == b): 0-based index of the first b, or -1
RECURSIVE PositionFrom(_, _, _)
PositionFrom(v, b, i) ==
    IF i >= Len(v) THEN -1
    ELSE IF v[i + 1] = b THEN i
    ELSE PositionFrom(v, b, i + 1)

position(v, b) == PositionFrom(v, b, 0)

RECURSIVE lstrip_whitespaces(_)
lstrip_whitespaces(v) ==
    IF v = <<>> THEN <<>>
    ELSE IF v[1] # SP THEN v
    ELSE lstrip_whitespaces(Tail(v))

RECURSIVE rstrip_whitespaces(_)
rstrip_whitespaces(v) ==
    IF v = <<>> THEN <<>>
    ELSE IF v[Len(v)] # SP THEN v
    ELSE rstrip_whitespaces(Upto(v, Len(v) - 1))

\* the while loop of split_by, from index i
RECURSIVE SplitByFrom(_, _, _)
SplitByFrom(v, needle, i) ==
    IF i > Len(v) - Len(needle) THEN <<v, <<>>>>
    ELSE IF starts_with(From(v, i), needle)
         THEN <<Upto(v, i), From(v, i + Len(needle))>>
    ELSE SplitByFrom(v, needle, i + 1)

\* split_by that never finds the needle
split_by_none(v, needle) == <<v, <<>>>>

split_by(v, needle) ==
    IF Len(needle) > Len(v) THEN <<v, <<>>>>
    ELSE SplitByFrom(v, needle, 0)

\* rstrip_cr that strips nothing
rstrip_cr_kept(row) == row

rstrip_cr(row) ==
    IF row # <<>> /\ row[Len(row)] = CR THEN Upto(row, Len(row) - 1)
    ELSE row

\* the for loop of is_comment_line
RECURSIVE CommentScan(_)
CommentScan(row) ==
    IF row = <<>> THEN FALSE
    ELSE IF row[1] = SP \/ row[1] = TAB THEN CommentScan(Tail(row))
    ELSE row[1] = HASH

\* is_comment_line that takes a '#' anywhere in the row for a comment
is_comment_line_any(row) ==
    row = <<>> \/ \E i \in 1..Len(row) : row[i] = HASH

is_comment_line(row) ==
    IF row = <<>> THEN TRUE ELSE CommentScan(row)

---------------------------------------------------------------------------
(* Octal escapes *)

is_oct(c) == c >= D0 /\ c <= D7

\* is_octal_encoding that tests two of the three digits
is_octal_encoding_two(v) ==
    /\ Len(v) >= 4
    /\ v[1] = BSLASH
    /\ is_oct(v[2]) /\ is_oct(v[3])

is_octal_encoding(v) ==
    /\ Len(v) >= 4
    /\ v[1] = BSLASH
    /\ is_oct(v[2]) /\ is_oct(v[3]) /\ is_oct(v[4])

\* parse_octal in an integer wider than u8
parse_octal_wide(v) ==
    ((v[1] % 8) * 64) + ((v[2] % 8) * 8) + (v[3] % 8)

\* u8 arithmetic: `<<` drops the bits shifted out of the byte
parse_octal(v) ==
    (((v[1] % 8) * 64) % 256) + ((v[2] % 8) * 8) + (v[3] % 8)

\* the second while loop of unescape_octals
RECURSIVE UnescapeFrom(_, _, _)
UnescapeFrom(bytes, i, v) ==
    IF i >= Len(bytes) THEN v
    ELSE IF is_octal_encoding(From(bytes, i))
         THEN UnescapeFrom(bytes, i + 4,
                           Append(v, parse_octal(From(bytes, i + 1))))
    ELSE UnescapeFrom(bytes, i + 1, Append(v, bytes[i + 1]))

\* the first while loop of unescape_octals: index of the first escape
RECURSIVE FirstEscape(_, _)
FirstEscape(bytes, i) ==
    IF i >= Len(bytes) THEN i
    ELSE IF is_octal_encoding(From(bytes, i)) THEN i
    ELSE FirstEscape(bytes, i + 1)

\* unescape_octals that always takes the no-escape return
unescape_octals_borrowed(s) == s

unescape_octals(s) ==
    Only({ IF ~(i < Len(s)) THEN s ELSE UnescapeFrom(s, i, Upto(s, i))
         : i \in {FirstEscape(s, 0)} })

---------------------------------------------------------------------------
(* Fields *)

Ok(v) == [tag |-> "Ok", v |-> v]
Err(e) == [tag |-> "Err", e |-> e]

\* ParseRowError(String): the message, with the field text and the cause
\* the integer messages are formatted from
ParseRowError(msg, field, cause) ==
    [msg |-> msg, field |-> field, cause |-> cause]

ExpectedMoreFields == ParseRowError("Expected more fields", <<>>, "")

parse_field(d, delimit) ==
    IF d = <<>> THEN Err(ExpectedMoreFields)
    ELSE Ok(split_by(lstrip_whitespaces(d), delimit))

\* parse_os_str that leaves the field as the file holds it
parse_os_str_raw(d) == parse_field(d, <<SP>>)

parse_os_str(d) ==
    Only({ IF r.tag = "Err" THEN r
           ELSE Ok(<<unescape_octals(r.v[1]), r.v[2]>>)
         : r \in {parse_field(d, <<SP>>)} })

\* String::from_utf8_lossy and std::str::from_utf8, for byte strings whose
\* bytes above 127 are ones no UTF-8 sequence contains (0xF8..0xFF)
IsUtf8(s) == \A i \in 1..Len(s) : s[i] < 128

from_utf8_lossy(s) ==
    [i \in 1..Len(s) |-> IF s[i] < 128 THEN s[i] ELSE REPLACEMENT_CHARACTER]

IsDigit(c) == c >= D0 /\ c <= D9

\* the numeral without its leading zeros ("0" for zero)
RECURSIVE Canonical(_)
Canonical(ds) ==
    IF Len(ds) > 1 /\ ds[1] = D0 THEN Canonical(Tail(ds)) ELSE ds

RECURSIVE LexGreater(_, _)
LexGreater(a, b) ==
    IF a = <<>> THEN FALSE
    ELSE IF a[1] # b[1] THEN a[1] > b[1]
    ELSE LexGreater(Tail(a), Tail(b))

\* a canonical numeral exceeds c_ulong::MAX
Overflows(n) ==
    \/ Len(n) > Len(ULONG_MAX)
    \/ Len(n) = Len(ULONG_MAX) /\ LexGreater(n, ULONG_MAX)

\* the digit loop of from_str_radix: the first byte that is no digit, or
\* the first digit at which the accumulated value leaves the range
RECURSIVE DigitLoop(_, _)
DigitLoop(ds, i) ==
    IF i > Len(ds) THEN Ok(Canonical(ds))
    ELSE IF ~IsDigit(ds[i]) THEN Err("invalid digit found in string")
    ELSE IF Overflows(Canonical(Upto(ds, i)))
         THEN Err("number too large to fit in target type")
    ELSE DigitLoop(ds, i + 1)

\* c_ulong::from_str_radix(v, 10)
from_str_radix(src) ==
    IF src = <<>> THEN Err("cannot parse integer from empty string")
    ELSE IF src[1] = PLUS
         THEN IF Len(src) = 1 THEN Err("invalid digit found in string")
              ELSE DigitLoop(Tail(src), 1)
    ELSE DigitLoop(src, 1)

\* the two conversions of parse_int, of a field already split off
ParseIntField(field, tail) ==
    IF ~IsUtf8(field)
    THEN Err(ParseRowError("Cannot parse integer", from_utf8_lossy(field),
                           "invalid utf-8"))
    ELSE Only({ IF v.tag = "Err"
                THEN Err(ParseRowError("Cannot parse integer",
                                       from_utf8_lossy(field), v.e))
                ELSE Ok(<<v.v, tail>>)
              : v \in {from_str_radix(field)} })

parse_int(d) ==
    Only({ IF r.tag = "Err" THEN r ELSE ParseIntField(r.v[1], r.v[2])
         : r \in {parse_field(d, <<SP>>)} })

parse_major_minor(d) ==
    Only({ IF a.tag = "Err" THEN a ELSE
    Only({ IF b.tag = "Err" THEN b ELSE
    Only({ IF major.tag = "Err" THEN major ELSE
    Only({ IF minor.tag = "Err" THEN minor
           ELSE Ok(<<major.v[1], minor.v[1], b.v[2]>>)
    : minor \in {parse_int(b.v[1])} })
    : major \in {parse_int(a.v[1])} })
    : b \in {parse_field(a.v[2], <<SP>>)} })
    : a \in {parse_field(d, <<COLON>>)} })

parse_optional(d) ==
    Only({ IF r.tag = "Err" THEN r
           ELSE Ok(<<unescape_octals(rstrip_whitespaces(r.v[1])), r.v[2]>>)
         : r \in {parse_field(d, <<DASH, SP>>)} })

---------------------------------------------------------------------------
(* One row *)

MountPoint(mount_id, parent_id, major, minor, root, mount_point, mount_options, optional_fields, fstype, mount_source, super_options) ==
    [mount_id |-> mount_id, parent_id |-> parent_id, major |-> major,
     minor |-> minor, root |-> root, mount_point |-> mount_point,
     mount_options |-> mount_options, optional_fields |-> optional_fields,
     fstype |-> fstype, mount_source |-> mount_source,
     super_options |-> super_options]

\* the fields of a row that is no comment, in the order of the try! list,
\* each parsed from the tail the one before left (read from the bottom up:
\* mount_id is bound first)
ParseFields(row) ==
    Only({ IF mount_id.tag = "Err" THEN mount_id ELSE
    Only({ IF parent_id.tag = "Err" THEN parent_id ELSE
    Only({ IF mm.tag = "Err" THEN mm ELSE
    Only({ IF root.tag = "Err" THEN root ELSE
    Only({ IF mount_point.tag = "Err" THEN mount_point ELSE
    Only({ IF mount_options.tag = "Err" THEN mount_options ELSE
    Only({ IF optional_fields.tag = "Err" THEN optional_fields ELSE
    Only({ IF fstype.tag = "Err" THEN fstype ELSE
    Only({ IF mount_source.tag = "Err" THEN mount_source ELSE
    Only({ IF super_options.tag = "Err" THEN super_options ELSE
           Ok(Some(MountPoint(mount_id.v[1], parent_id.v[1], mm.v[1],
                              mm.v[2], root.v[1], mount_point.v[1],
                              mount_options.v[1], optional_fields.v[1],
                              fstype.v[1], mount_source.v[1],
                              super_options.v[1])))
    : super_options \in {parse_os_str(mount_source.v[2])} })
    : mount_source \in {parse_os_str(fstype.v[2])} })
    : fstype \in {parse_os_str(optional_fields.v[2])} })
    : optional_fields \in {parse_optional(mount_options.v[2])} })
    : mount_options \in {parse_os_str(mount_point.v[2])} })
    : mount_point \in {parse_os_str(root.v[2])} })
    : root \in {parse_os_str(mm.v[3])} })
    : mm \in {parse_major_minor(parent_id.v[2])} })
    : parent_id \in {parse_int(mount_id.v[2])} })
    : mount_id \in {parse_int(row)} })

\* Result<Option<MountPoint>, ParseRowError>
parse_mount_point(row0) ==
    LET row == rstrip_cr(row0)
    IN  IF is_comment_line(row) THEN Ok(None) ELSE ParseFields(row)

---------------------------------------------------------------------------
(* Parser *)

ParseError(msg, rn, row) == [msg |-> msg, row_num |-> rn, row |-> row]

\* a Parser whose exhausted flag is never set
Parser_unfused(d, rn, ex) == [data |-> d, row_num |-> rn, exhausted |-> FALSE]

Parser(d, rn, ex) == [data |-> d, row_num |-> rn, exhausted |-> ex]

\* Parser::new that counts the rows from one
ParserNew_one(d) == Parser(d, 1, FALSE)

\* Parser::new
ParserNew(d) == Parser(d, 0, FALSE)

\* the loop of Parser::next: the item returned and the parser it leaves
RECURSIVE NextLoop(_)
NextLoop(p) ==
    Only({
      IF ix >= 0
      THEN Only({
             IF r.tag = "Err"
             THEN [item |-> Some(Err(ParseError(r.e, p.row_num + 1,
                                     from_utf8_lossy(Upto(p.data, ix))))),
                   parser |-> q]
             ELSE IF r.v = None THEN NextLoop(q)
             ELSE [item |-> Some(Ok(r.v.v)), parser |-> q]
           : r \in {parse_mount_point(Upto(p.data, ix))},
             q \in {Parser(From(p.data, ix + 1), p.row_num + 1, p.exhausted)} })
      ELSE Only({
             IF r.tag = "Err"
             THEN [item |-> Some(Err(ParseError(r.e, p.row_num,
                                     from_utf8_lossy(p.data)))),
                   parser |-> q]
             ELSE IF r.v = None THEN [item |-> None, parser |-> q]
             ELSE [item |-> Some(Ok(r.v.v)), parser |-> q]
           : r \in {parse_mount_point(p.data)},
             q \in {Parser(p.data, p.row_num, TRUE)} })
    : ix \in {position(p.data, LF)} })

\* Parser::next that gives up after the first malformed line
ParserNext_abort(p) ==
    IF p.exhausted THEN [item |-> None, parser |-> p]
    ELSE Only({ IF r.item # None /\ r.item.v.tag = "Err"
                THEN [item |-> r.item,
                      parser |-> Parser(r.parser.data, r.parser.row_num, TRUE)]
                ELSE r
              : r \in {NextLoop(p)} })

\* Parser::next
ParserNext(p) ==
    IF p.exhausted THEN [item |-> None, parser |-> p] ELSE NextLoop(p)

---------------------------------------------------------------------------
(* Mount flags *)

MS_RDONLY      == 1
MS_NOSUID      == 2
MS_NODEV       == 4
MS_NOEXEC      == 8
MS_SYNCHRONOUS == 16
MS_REMOUNT     == 32
MS_MANDLOCK    == 64
MS_DIRSYNC     == 128
MS_NOATIME     == 1024
MS_NODIRATIME  == 2048
MS_BIND        == 4096
MS_RELATIME    == 2097152
MS_STRICTATIME == 16777216

\* the option words, as bytes
W_rw == <<114, 119>>
W_ro == <<114, 111>>
W_nosuid == <<110, 111, 115, 117, 105, 100>>
W_nodev == <<110, 111, 100, 101, 118>>
W_noexec == <<110, 111, 101, 120, 101, 99>>
W_mand == <<109, 97, 110, 100>>
W_sync == <<115, 121, 110, 99>>
W_dirsync == <<100, 105, 114, 115, 121, 110, 99>>
W_noatime == <<110, 111, 97, 116, 105, 109, 101>>
W_nodiratime == <<110, 111, 100, 105, 114, 97, 116, 105, 109, 101>>
W_relatime == <<114, 101, 108, 97, 116, 105, 109, 101>>
W_strictatime == <<115, 116, 114, 105, 99, 116, 97, 116, 105, 109, 101>>

\* the body of the for loop of get_mount_flags: the bits one token adds
OptFlags(opt) ==
    IF opt = W_ro THEN {MS_RDONLY}
    ELSE IF opt = W_nosuid THEN {MS_NOSUID}
    ELSE IF opt = W_nodev THEN {MS_NODEV}
    ELSE IF opt = W_noexec THEN {MS_NOEXEC}
    ELSE IF opt = W_mand THEN {MS_MANDLOCK}
    ELSE IF opt = W_sync THEN {MS_SYNCHRONOUS}
    ELSE IF opt = W_dirsync THEN {MS_DIRSYNC}
    ELSE IF opt = W_noatime THEN {MS_NOATIME}
    ELSE IF opt = W_nodiratime THEN {MS_NODIRATIME}
    ELSE IF opt = W_relatime THEN {MS_RELATIME}
    ELSE IF opt = W_strictatime THEN {MS_STRICTATIME}
    ELSE {}

\* the loop of get_mount_flags left after its first turn
SplitFlags_first(opts, fl) ==
    LET ix == position(opts, COMMA)
    IN  IF ix < 0 THEN fl \cup OptFlags(opts)
        ELSE fl \cup OptFlags(Upto(opts, ix))

\* mount_options.split(|c| *c == b','), folded by the loop body
RECURSIVE SplitFlags(_, _)
SplitFlags(opts, fl) ==
    LET ix == position(opts, COMMA)
    IN  IF ix < 0 THEN fl \cup OptFlags(opts)
        ELSE SplitFlags(From(opts, ix + 1), fl \cup OptFlags(Upto(opts, ix)))

\* MountPoint::get_mount_flags
get_mount_flags(mp) == SplitFlags(mp.mount_options, {})

\* MountPoint::get_flags: the same bits as a c_ulong
get_flags(mp) == get_mount_flags(mp)

\* the bits MsFlags names
MsFlagsAll ==
    {MS_RDONLY, MS_NOSUID, MS_NODEV, MS_NOEXEC, MS_SYNCHRONOUS, MS_REMOUNT,
     MS_MANDLOCK, MS_DIRSYNC, MS_NOATIME, MS_NODIRATIME, MS_BIND,
     MS_RELATIME, MS_STRICTATIME}

\* from_bits_truncate that drops every bit
from_bits_truncate_empty(bits) == {}

from_bits_truncate(bits) == bits \cap MsFlagsAll

\* the fields of MountFlags
Attrs ==
    {"readonly", "nodev", "noexec", "nosuid", "noatime", "nodiratime",
     "relatime", "strictatime", "dirsync", "synchronous", "mandlock"}

\* MountFlags::default()
MountFlagsDefault == [a \in Attrs |-> None]

\* apply_flag whose Some(false) arm misses the negation
apply_flag_nonot(fl, flag, set) ==
    IF set = Some(TRUE) THEN fl \cup {flag}
    ELSE IF set = Some(FALSE) THEN fl \cap {flag}
    ELSE fl

\* MountFlags::apply_flag
apply_flag(fl, flag, set) ==
    IF set = Some(TRUE) THEN fl \cup {flag}
    ELSE IF set = Some(FALSE) THEN fl \ {flag}
    ELSE fl

\* MountFlags::apply_to_flags
apply_to_flags(self, fl) ==
    LET f1 == apply_flag(fl, MS_RDONLY, self.readonly)
        f2 == apply_flag(f1, MS_NODEV, self.nodev)
        f3 == apply_flag(f2, MS_NOEXEC, self.noexec)
        f4 == apply_flag(f3, MS_NOSUID, self.nosuid)
        f5 == apply_flag(f4, MS_NOATIME, self.noatime)
        f6 == apply_flag(f5, MS_NODIRATIME, self.nodiratime)
        f7 == apply_flag(f6, MS_RELATIME, self.relatime)
        f8 == apply_flag(f7, MS_STRICTATIME, self.strictatime)
        f9 == apply_flag(f8, MS_DIRSYNC, self.dirsync)
        f10 == apply_flag(f9, MS_SYNCHRONOUS, self.synchronous)
        f11 == apply_flag(f10, MS_MANDLOCK, self.mandlock)
    IN  f11

---------------------------------------------------------------------------
(* Paths *)

\* Path::is_absolute
is_absolute(p) == p # <<>> /\ p[1] = SLASH

\* the names between the separators of a path, in order, empty ones included
RECURSIVE SplitPath(_)
SplitPath(p) ==
    LET ix == position(p, SLASH)
    IN  IF ix < 0 THEN <<p>>
        ELSE <<Upto(p, ix)>> \o SplitPath(From(p, ix + 1))

\* Path::components: repeated and trailing separators and `.` are dropped,
\* except a `.` that begins a relative path
Components(p) ==
    Only({ [root |-> is_absolute(p),
            names |-> SelectSeq(
                [i \in 1..Len(names) |->
                    IF names[i] = <<DOT>> /\ ~(i = 1 /\ ~is_absolute(p))
                    THEN <<>> ELSE names[i]],
                LAMBDA n : n # <<>>)]
         : names \in {SplitPath(p)} })

\* `mount_info.mount_point == path`: Path's PartialEq compares components
PathEq(a, b) == Components(a) = Components(b)

\* PathBuf::push that puts no separator in
push_concat(buf, p) == IF is_absolute(p) THEN p ELSE buf \o p

\* PathBuf::push
push(buf, p) ==
    IF is_absolute(p) THEN p
    ELSE IF buf # <<>> /\ buf[Len(buf)] # SLASH THEN buf \o <<SLASH>> \o p
    ELSE buf \o p

---------------------------------------------------------------------------
(* Buffers: the lines a buffer is laid out from *)

MaxLines == 2
MaxRecords == 3

RECURSIVE JoinWith(_, _)
JoinWith(seq, sep) ==
    IF seq = <<>> THEN <<>>
    ELSE IF Len(seq) = 1 THEN seq[1]
    ELSE seq[1] \o sep \o JoinWith(Tail(seq), sep)

Spaces(n) == [i \in 1..n |-> SP]

\* A line of eleven fields as the kernel writes it: the fields separated by
\* single spaces, the optional fields closed by "-".  `cut` fields are
\* missing from its end and `pad` spaces follow it.
Record(mount_id, parent_id, mount_point, opts, optional, cut, pad) ==
    [kind |-> "record", mount_id |-> mount_id, parent_id |-> parent_id,
     dev |-> <<48, COLON, 52>>, root |-> <<SLASH>>,
     mount_point |-> mount_point, opts |-> opts, optional |-> optional,
     fstype |-> <<116>>, mount_source |-> <<115>>, super_options |-> W_rw,
     cut |-> cut, pad |-> pad, text |-> <<>>]

\* A line that is no record: a comment, a blank line, other text
Text(kind, text) ==
    [kind |-> kind, mount_id |-> <<>>, parent_id |-> <<>>, dev |-> <<>>,
     root |-> <<>>, mount_point |-> <<>>, opts |-> <<>>, optional |-> <<>>,
     fstype |-> <<>>, mount_source |-> <<>>, super_options |-> <<>>,
     cut |-> 0, pad |-> 0, text |-> text]

\* the tokens of a record line
Tokens(l) ==
    <<l.mount_id, l.parent_id, l.dev, l.root, l.mount_point,
      JoinWith(l.opts, <<COMMA>>)>>
    \o l.optional
    \o <<<<DASH>>, l.fstype, l.mount_source, l.super_options>>

\* the bytes of a line, without its line ending
Bytes(l) ==
    IF l.kind = "record"
    THEN LET t == Tokens(l)
         IN  JoinWith(SubSeq(t, 1, Len(t) - l.cut), <<SP>>) \o Spaces(l.pad)
    ELSE l.text

P_a     == <<SLASH, 97>>
P_b     == <<SLASH, 98>>
P_hash  == <<SLASH, HASH, 97>>
T_x1    == <<120, COLON, 49>>
T_y2    == <<121, COLON, 50>>
T_xdash == <<120, DASH>>

\* the lines of the buffers the parser is iterated over
Lines ==
    { Record(<<49>>, <<50>>, P_a, <<W_rw>>, <<>>, 0, 0),
      Record(<<50>>, <<50>>, P_b, <<W_ro, W_nosuid>>, <<T_x1>>, 0, 0),
      Record(<<51>>, <<50>>, P_hash, <<W_rw>>, <<T_x1, T_y2>>, 0, 0),
      Record(<<52>>, <<50>>, P_a, <<W_rw>>, <<T_xdash>>, 0, 0),
      Record(<<54>>, <<50>>, P_a, <<W_rw>>, <<T_x1>>, 1, 0),
      Record(<<55>>, <<50>>, P_a, <<W_rw>>, <<>>, 1, 1),
      Record(<<56>>, <<50>>, P_a, <<W_rw>>, <<>>, 1, 2),
      Record(<<49, 48>>, <<50, 98>>, P_a, <<W_rw>>, <<>>, 0, 0),
      Text("comment", <<HASH, 99>>),
      Text("comment", <<SP, TAB, HASH>>),
      Text("blank", <<>>),
      Text("text", <<SP>>),
      Text("text", <<CR>>) }

\* the lines of the snapshots get_mountpoint_flags_from scans
SnapshotLines ==
    { Record(<<49>>, <<50>>, P_a, <<W_rw>>, <<>>, 0, 0),
      Record(<<50>>, <<50>>, P_a, <<W_ro, W_nosuid>>, <<T_x1>>, 0, 0),
      Record(<<51>>, <<50>>, P_b, <<W_rw, W_nodev, W_relatime>>, <<>>, 0, 0),
      Record(<<52>>, <<50>>, P_a, <<W_rw>>, <<>>, 1, 0),
      Text("comment", <<HASH, 99>>) }

SeqsUpTo(S, n) == UNION {[1..k -> S] : k \in 0..n}

\* how the lines are terminated: each by `eol`, the last one by `eol`
\* ("eol"), by nothing ("none") or by a lone carriage return ("cr")
Styles ==
    { [eol |-> <<LF>>, last |-> "eol"], [eol |-> <<LF>>, last |-> "none"],
      [eol |-> <<CR, LF>>, last |-> "eol"], [eol |-> <<CR, LF>>, last |-> "cr"] }

Inputs == [lines : SeqsUpTo(Lines, MaxLines), style : Styles]

Snapshots ==
    [lines : SeqsUpTo(SnapshotLines, MaxRecords),
     style : [eol : {<<LF>>}, last : {"eol", "none"}]]

\* what follows line i of the buffer
Ending(in, i) ==
    IF i < Len(in.lines) \/ in.style.last = "eol" THEN in.style.eol
    ELSE IF in.style.last = "cr" THEN <<CR>>
    ELSE <<>>

\* the buffer
RECURSIVE ContentUpto(_, _)
ContentUpto(in, k) ==
    IF k = 0 THEN <<>>
    ELSE ContentUpto(in, k - 1) \o Bytes(in.lines[k]) \o Ending(in, k)

Content(in) == ContentUpto(in, Len(in.lines))

Idle == [tag |-> "Idle"]

---------------------------------------------------------------------------
(* A caller iterating the parser: `for item in Parser::new(content)` *)

Init ==
    /\ input \in Inputs
    /\ content = Content(input)
    /\ data = ParserNew(content).data
    /\ row_num = ParserNew(content).row_num
    /\ exhausted = ParserNew(content).exhausted
    /\ items = <<>>
    /\ pc = "iter"
    /\ path = Idle /\ flags = Idle /\ ret = Idle /\ self_flags = Idle
    /\ mounts = Idle /\ cwd = Idle /\ mount_path = Idle /\ found = Idle
    /\ submitted = Idle /\ base = Idle /\ out = Idle

\* one call of Parser::next by the for loop, which ends at None
IterNext ==
    /\ pc = "iter"
    /\ LET r == ParserNext(Parser(data, row_num, exhausted))
       IN  /\ data' = r.parser.data
           /\ row_num' = r.parser.row_num
           /\ exhausted' = r.parser.exhausted
           /\ items' = IF r.item = None THEN items ELSE Append(items, r.item.v)
           /\ pc' = IF r.item = None THEN "end" ELSE "iter"
    /\ UNCHANGED <<input, content, path, flags, ret, self_flags, mounts, cwd,
                   mount_path, found, submitted, base, out>>

Next == IterNext

Spec == Init /\ [][Next]_vars

---------------------------------------------------------------------------
(* What a buffer holds, read off its layout *)

\* line i as it stands between two newlines: its bytes, and the carriage
\* return of its line ending
RowOf(in, i) ==
    Bytes(in.lines[i]) \o SelectSeq(Ending(in, i), LAMBDA c : c # LF)

\* the lines of the buffer that satisfy Keep, as indices in order
LinesWhere(in, Keep(_)) ==
    SelectSeq([i \in 1..Len(in.lines) |-> i], Keep)

\* the lines parse_mount_point does not skip
Yielding(in) ==
    LinesWhere(in, LAMBDA i : parse_mount_point(RowOf(in, i)) # Ok(None))

\* an item without its place in the buffer: the record, or the message
Result(item) == IF item.tag = "Err" THEN Err(item.e.msg) ELSE item

\* the result of a row as an item: Ok(Some(v)) is yielded as Ok(v)
AsItem(r) == IF r.tag = "Err" THEN r ELSE Ok(r.v.v)

Results == [j \in 1..Len(items) |-> Result(items[j])]

IsPrefix(a, b) == Len(a) <= Len(b) /\ a = SubSeq(b, 1, Len(a))

\* C5: the items yielded are exactly the results of the rows that are not
\* skipped, each parsed on its own, in buffer order: a malformed row gives
\* one Err and the rows after it are parsed as if it were not there.
C5_ItemsArePerRowResults ==
    pc \in {"iter", "end"} =>
        LET y == Yielding(input)
            expected == [j \in 1..Len(y) |->
                            AsItem(parse_mount_point(RowOf(input, y[j])))]
        IN  /\ IsPrefix(Results, expected)
            /\ pc = "end" => Len(items) = Len(expected)

\* an Err item was followed by the record of the next line
C5_Witness ==
    /\ pc = "end"
    /\ Len(items) = 2
    /\ items[1].tag = "Err"
    /\ items[2].tag = "Ok"

\* C6: every ParseError carries the 1-based number of the line that failed,
\* the skipped lines before it counted, whether or not the line ends in a
\* newline.
C6_ErrorLineNumbers ==
    pc \in {"iter", "end"} =>
        \A j \in 1..Len(items) :
            items[j].tag = "Err" => items[j].e.row_num = Yielding(input)[j]

NonEmptyFields(v) ==
    /\ v.mount_id # <<>> /\ v.parent_id # <<>>
    /\ v.major # <<>> /\ v.minor # <<>>
    /\ v.root # <<>> /\ v.mount_point # <<>> /\ v.mount_options # <<>>
    /\ v.fstype # <<>> /\ v.mount_source # <<>> /\ v.super_options # <<>>

\* C7: an Ok record comes only from a line with all eleven fields and has
\* no empty field; a line with a field missing, trailing spaces or not,
\* gives the error "Expected more fields".
C7_AllFieldsPresent ==
    pc \in {"iter", "end"} =>
        \A j \in 1..Len(items) :
            LET l == input.lines[Yielding(input)[j]]
            IN  /\ items[j].tag = "Ok" =>
                    /\ l.kind = "record" /\ l.cut = 0
                    /\ NonEmptyFields(items[j].v)
                /\ (l.kind = "record" /\ l.cut > 0) =>
                    /\ items[j].tag = "Err"
                    /\ items[j].e.msg = ExpectedMoreFields

\* a row is empty once a trailing carriage return is dropped, or its first
\* byte that is no space or tab is '#'
BlankOrComment(row) ==
    LET r == IF row # <<>> /\ row[Len(row)] = CR
             THEN SubSeq(row, 1, Len(row) - 1) ELSE row
    IN  \/ r = <<>>
        \/ \E i \in 1..Len(r) :
              /\ r[i] = HASH
              /\ \A k \in 1..(i - 1) : r[k] \in {SP, TAB}

\* item j was yielded for line i
ItemOfLine(j, i) ==
    IF items[j].tag = "Err"
    THEN items[j].e.row = from_utf8_lossy(RowOf(input, i))
    ELSE /\ input.lines[i].kind = "record"
         /\ items[j].v.mount_id = input.lines[i].mount_id
         /\ items[j].v.mount_point = input.lines[i].mount_point

\* C8: blank lines and comment lines give no item, wherever they stand, and
\* every other line gives one: the items are those of the other lines, in
\* order.  A '#' inside a field does not make its line a comment.
C8_CommentsYieldNothing ==
    pc \in {"iter", "end"} =>
        LET kept == LinesWhere(input,
                               LAMBDA i : ~BlankOrComment(RowOf(input, i)))
        IN  /\ Len(items) <= Len(kept)
            /\ \A j \in 1..Len(items) : ItemOfLine(j, kept[j])
            /\ pc = "end" => Len(items) = Len(kept)

\* the record of a mount point with a '#' was yielded, and the comment that
\* ends the buffer, without a newline, was not
C8_Witness ==
    /\ pc = "end"
    /\ Len(input.lines) = 2
    /\ input.lines[1].mount_point = P_hash
    /\ input.lines[2].kind = "comment"
    /\ input.style.last = "none"
    /\ Len(items) = 1
    /\ items[1].tag = "Ok"
    /\ items[1].v.mount_point = P_hash

\* the results of the lines parsed without the carriage return of their
\* line endings
BareResults(in) ==
    LET y == LinesWhere(in,
                 LAMBDA i : parse_mount_point(Bytes(in.lines[i])) # Ok(None))
    IN  [j \in 1..Len(y) |-> AsItem(parse_mount_point(Bytes(in.lines[y[j]])))]

\* C9 as stated: whatever the line, a carriage return after it changes
\* nothing: the items of a buffer are the results of its lines parsed
\* without their line endings.
C9_CarriageReturnIgnored ==
    pc = "end" => Results = BareResults(input)

EndsInCR(l) == Bytes(l) # <<>> /\ Bytes(l)[Len(Bytes(l))] = CR

\* C9, amended: a carriage return after a line that does not itself end in
\* one changes nothing (same record, same message, or skipped alike).
C9_OneCarriageReturnIgnored ==
    (pc = "end" /\ \A i \in 1..Len(input.lines) : ~EndsInCR(input.lines[i]))
        => Results = BareResults(input)

\* two records of a buffer with CRLF line endings, whose last line ends in
\* a lone carriage return, were yielded with super_options "rw"
C9_Witness ==
    /\ pc = "end"
    /\ input.style = [eol |-> <<CR, LF>>, last |-> "cr"]
    /\ Len(items) = 2
    /\ \A j \in 1..2 : items[j].tag = "Ok" /\ items[j].v.super_options = W_rw

\* C10: the optional fields of a record are the tokens before the token
\* "-", in order, and fstype is the token after it; a token that only ends
\* in '-' does not close them.
C10_OptionalFields ==
    pc \in {"iter", "end"} =>
        \A j \in 1..Len(items) :
            LET l == input.lines[Yielding(input)[j]]
            IN  (l.kind = "record" /\ l.cut = 0 /\ items[j].tag = "Ok") =>
                    /\ items[j].v.optional_fields = JoinWith(l.optional, <<SP>>)
                    /\ items[j].v.fstype = l.fstype

---------------------------------------------------------------------------
(* get_mountpoint_flags_from *)

\* every error wrapped as RemountError::Io
RemountError_io(variant, e) == [variant |-> "Io", e |-> e]

RemountError(variant, e) == [variant |-> variant, e |-> e]

\* the for loop of get_mountpoint_flags_from that keeps the first match
ScanStep_first(p, fl, target) ==
    Only({
      IF r.item = None
      THEN [done |-> TRUE, ret |-> Ok(fl), flags |-> fl, parser |-> r.parser]
      ELSE IF r.item.v.tag = "Err"
      THEN [done |-> TRUE,
            ret |-> Err(RemountError("ParseMountInfo", r.item.v.e)),
            flags |-> fl, parser |-> r.parser]
      ELSE [done |-> FALSE, ret |-> Idle,
            flags |-> IF PathEq(r.item.v.v.mount_point, target) /\ fl = None
                      THEN Some(get_flags(r.item.v.v)) ELSE fl,
            parser |-> r.parser]
    : r \in {ParserNext(p)} })

\* one turn of the for loop of get_mountpoint_flags_from, and the return
\* after it
ScanStep(p, fl, target) ==
    Only({
      IF r.item = None
      THEN [done |-> TRUE, ret |-> Ok(fl), flags |-> fl, parser |-> r.parser]
      ELSE IF r.item.v.tag = "Err"
      THEN [done |-> TRUE,
            ret |-> Err(RemountError("ParseMountInfo", r.item.v.e)),
            flags |-> fl, parser |-> r.parser]
      ELSE [done |-> FALSE, ret |-> Idle,
            flags |-> IF PathEq(r.item.v.v.mount_point, target)
                      THEN Some(get_flags(r.item.v.v)) ELSE fl,
            parser |-> r.parser]
    : r \in {ParserNext(p)} })

RECURSIVE ScanLoop(_, _, _)
ScanLoop(p, fl, target) ==
    Only({ IF st.done THEN st.ret ELSE ScanLoop(st.parser, st.flags, target)
         : st \in {ScanStep(p, fl, target)} })

\* a lookup that finds a mount without flags whatever the snapshot holds
get_mountpoint_flags_from_any(c, target) == Ok(Some({}))

\* get_mountpoint_flags_from, from call to return
get_mountpoint_flags_from(c, target) == ScanLoop(ParserNew(c), None, target)

P_b_slash == <<SLASH, 98, SLASH>>

\* the paths get_mountpoint_flags_from is called with
ScanPaths == {P_a, P_b_slash}

InitScan ==
    /\ input \in Snapshots
    /\ content = Content(input)
    /\ path \in ScanPaths
    /\ data = ParserNew(content).data
    /\ row_num = ParserNew(content).row_num
    /\ exhausted = ParserNew(content).exhausted
    /\ flags = None
    /\ pc = "scan"
    /\ items = Idle /\ ret = Idle /\ self_flags = Idle
    /\ mounts = Idle /\ cwd = Idle /\ mount_path = Idle /\ found = Idle
    /\ submitted = Idle /\ base = Idle /\ out = Idle

\* one turn of the loop of get_mountpoint_flags_from(content, path)
ScanNext ==
    /\ pc = "scan"
    /\ LET st == ScanStep(Parser(data, row_num, exhausted), flags, path)
       IN  /\ data' = st.parser.data
           /\ row_num' = st.parser.row_num
           /\ exhausted' = st.parser.exhausted
           /\ flags' = st.flags
           /\ ret' = st.ret
           /\ pc' = IF st.done THEN "returned" ELSE "scan"
    /\ UNCHANGED <<input, content, items, path, self_flags, mounts, cwd,
                   mount_path, found, submitted, base, out>>

NextScan == ScanNext

SpecScan == InitScan /\ [][NextScan]_vars

\* every line of the layout is a comment or a record of eleven fields, none
\* of them empty
AllLinesParse(in) ==
    \A i \in 1..Len(in.lines) :
        \/ in.lines[i].kind = "comment"
        \/ /\ in.lines[i].kind = "record"
           /\ in.lines[i].cut = 0
           /\ in.lines[i].mount_source # <<>>

\* the records mounted at `target`, as line numbers in order
Matching(in, target) ==
    LinesWhere(in, LAMBDA i : /\ in.lines[i].kind = "record"
                              /\ PathEq(in.lines[i].mount_point, target))

\* the bit each option word stands for
WordFlag ==
    { <<W_ro, MS_RDONLY>>, <<W_nosuid, MS_NOSUID>>, <<W_nodev, MS_NODEV>>,
      <<W_noexec, MS_NOEXEC>>, <<W_mand, MS_MANDLOCK>>,
      <<W_sync, MS_SYNCHRONOUS>>, <<W_dirsync, MS_DIRSYNC>>,
      <<W_noatime, MS_NOATIME>>, <<W_nodiratime, MS_NODIRATIME>>,
      <<W_relatime, MS_RELATIME>>, <<W_strictatime, MS_STRICTATIME>> }

\* the bits of the option words of a line
FlagsOfLine(l) ==
    {wf[2] : wf \in {x \in WordFlag : \E k \in 1..Len(l.opts) : l.opts[k] = x[1]}}

\* C1: when every line of the snapshot parses and records are mounted at the
\* target, the flags returned are those of the last of them, whatever lies
\* between them.
C1_LastMatchWins ==
    (pc = "returned" /\ AllLinesParse(input)
        /\ Matching(input, path) # <<>>) =>
        LET m == Matching(input, path)
        IN  ret = Ok(Some(FlagsOfLine(input.lines[m[Len(m)]])))

\* two records at the target with different flags, another mount between
\* them, and the flags of the second were returned
C1_Witness ==
    /\ pc = "returned"
    /\ AllLinesParse(input)
    /\ Matching(input, path) = <<1, 3>>
    /\ input.lines[2].kind = "record"
    /\ FlagsOfLine(input.lines[1]) # FlagsOfLine(input.lines[3])
    /\ ret = Ok(Some(FlagsOfLine(input.lines[3])))


\* the lines of the snapshot that do not parse, as line numbers in order
FailingLines(in) ==
    LinesWhere(in, LAMBDA i : parse_mount_point(RowOf(in, i)).tag = "Err")

\* C25: when a line of the snapshot gives a ParseError, before or after a
\* record of the target, the result is that error as ParseMountInfo, the
\* error of the first such line, and no flags; flags, or None, are returned
\* only when no line of the whole buffer fails.
C25_AllOrNothing ==
    pc = "returned" =>
        LET bad == FailingLines(input)
        IN  IF bad = <<>>
            THEN ret.tag = "Ok"
            ELSE /\ ret.tag = "Err"
                 /\ ret.e.variant = "ParseMountInfo"
                 /\ ret.e.e.msg = parse_mount_point(RowOf(input, bad[1])).e
                 /\ ret.e.e.row = from_utf8_lossy(RowOf(input, bad[1]))

\* a record of the target was found, the line after it failed, and the
\* error was returned; the record of the target after that was never read
C25_Witness ==
    /\ pc = "returned"
    /\ ret.tag = "Err"
    /\ flags # None
    /\ Len(input.lines) = 3
    /\ Matching(input, path) = <<1, 3>>
    /\ FailingLines(input) = <<2>>

---------------------------------------------------------------------------
(* MountFlags::apply_to_flags on its own *)

MaxOverrides == 2
MaxBaseBits  == 2

\* the MountFlags values with at most n fields set
Overrides(n) ==
    UNION { { [a \in Attrs |-> IF a \in S THEN Some(a \in T) ELSE None]
              : T \in SUBSET S }
            : S \in {X \in SUBSET Attrs : Cardinality(X) <= n} }

\* the MsFlags values with at most n bits set
BaseFlags(n) == {X \in SUBSET MsFlagsAll : Cardinality(X) <= n}

InitFlags ==
    /\ self_flags \in Overrides(MaxOverrides)
    /\ base \in BaseFlags(MaxBaseBits)
    /\ out = Idle
    /\ pc = "flags"
    /\ input = Idle /\ content = Idle /\ data = Idle /\ row_num = Idle
    /\ exhausted = Idle /\ items = Idle /\ path = Idle /\ flags = Idle
    /\ ret = Idle /\ mounts = Idle /\ cwd = Idle /\ mount_path = Idle
    /\ found = Idle /\ submitted = Idle

\* self_flags.apply_to_flags(base)
ApplyToFlags ==
    /\ pc = "flags"
    /\ out' = apply_to_flags(self_flags, base)
    /\ pc' = "applied"
    /\ UNCHANGED <<input, content, data, row_num, exhausted, items, path,
                   flags, ret, self_flags, mounts, cwd, mount_path, found,
                   submitted, base>>

NextFlags == ApplyToFlags

SpecFlags == InitFlags /\ [][NextFlags]_vars

\* the bit each field of MountFlags governs
AttrFlag ==
    [a \in Attrs |->
        CASE a = "readonly"    -> MS_RDONLY
          [] a = "nodev"       -> MS_NODEV
          [] a = "noexec"      -> MS_NOEXEC
          [] a = "nosuid"      -> MS_NOSUID
          [] a = "noatime"     -> MS_NOATIME
          [] a = "nodiratime"  -> MS_NODIRATIME
          [] a = "relatime"    -> MS_RELATIME
          [] a = "strictatime" -> MS_STRICTATIME
          [] a = "dirsync"     -> MS_DIRSYNC
          [] a = "synchronous" -> MS_SYNCHRONOUS
          [] a = "mandlock"    -> MS_MANDLOCK]

\* what the overrides `mf` make of the flags `b`, bit by bit
Merged(mf, b) ==
    {f \in MsFlagsAll :
        IF \E a \in Attrs : AttrFlag[a] = f /\ mf[a] # None
        THEN \E a \in Attrs : AttrFlag[a] = f /\ mf[a] = Some(TRUE)
        ELSE f \in b}

\* C3: apply_to_flags keeps the base value of every attribute whose override
\* is unset, sets every forced-on one and clears every forced-off one; with
\* no override the result is the base, and with only readonly forced off on
\* a read-only base it is the base without the read-only bit.
C3_ApplyToFlagsFrame ==
    pc = "applied" =>
        /\ \A a \in Attrs :
              /\ self_flags[a] = None =>
                    (AttrFlag[a] \in out <=> AttrFlag[a] \in base)
              /\ self_flags[a] = Some(TRUE) => AttrFlag[a] \in out
              /\ self_flags[a] = Some(FALSE) => AttrFlag[a] \notin out
        /\ out = Merged(self_flags, base)
        /\ self_flags = MountFlagsDefault => out = base
        /\ (/\ self_flags = [MountFlagsDefault EXCEPT !.readonly = Some(FALSE)]
            /\ MS_RDONLY \in base) => out = base \ {MS_RDONLY}

\* readonly forced off on a read-only base that has another bit set
C3_Witness ==
    /\ pc = "applied"
    /\ self_flags = [MountFlagsDefault EXCEPT !.readonly = Some(FALSE)]
    /\ MS_RDONLY \in base
    /\ Cardinality(base) = 2
    /\ out = base \ {MS_RDONLY}

---------------------------------------------------------------------------
(* Remount::bare_remount *)

MaxMounts       == 1
MaxBuilderCalls == 1

\* the mounts of the mount table: where, with which per-mount flags, of
\* which source
MountKinds ==
    { [mount_point |-> P_a, flags |-> {}, source |-> <<115>>],
      [mount_point |-> P_a, flags |-> {MS_RDONLY, MS_NOSUID},
       source |-> <<115>>],
      [mount_point |-> P_b, flags |-> {MS_NOEXEC, MS_RELATIME},
       source |-> <<>>] }

\* the flags /proc/self/mountinfo shows in the per-mount options
MntFlags ==
    {MS_RDONLY, MS_NOSUID, MS_NODEV, MS_NOEXEC, MS_NOATIME, MS_NODIRATIME,
     MS_RELATIME}

\* the per-mount options of /proc/self/mountinfo for the flags `fl`
KernelOpts(fl) ==
    <<IF MS_RDONLY \in fl THEN W_ro ELSE W_rw>>
    \o (IF MS_NOSUID \in fl THEN <<W_nosuid>> ELSE <<>>)
    \o (IF MS_NODEV \in fl THEN <<W_nodev>> ELSE <<>>)
    \o (IF MS_NOEXEC \in fl THEN <<W_noexec>> ELSE <<>>)
    \o (IF MS_NOATIME \in fl THEN <<W_noatime>> ELSE <<>>)
    \o (IF MS_NODIRATIME \in fl THEN <<W_nodiratime>> ELSE <<>>)
    \o (IF MS_RELATIME \in fl THEN <<W_relatime>> ELSE <<>>)

\* the line of /proc/self/mountinfo for the i-th mount
KernelLine(i, m) ==
    [Record(<<D0 + i>>, <<D0>>, m.mount_point, KernelOpts(m.flags), <<>>, 0, 0)
        EXCEPT !.mount_source = m.source]

\* /proc/self/mountinfo for the mount table `ms`
KernelLayout(ms) ==
    [lines |-> [i \in 1..Len(ms) |-> KernelLine(i, ms[i])],
     style |-> [eol |-> <<LF>>, last |-> "eol"]]

\* the mount table after a successful remount of the topmost mount at
\* `target` with the flags `fl`
Remounted(ms, target, fl) ==
    LET at == {i \in 1..Len(ms) : PathEq(ms[i].mount_point, target)}
        top == CHOOSE i \in at : \A j \in at : j <= i
    IN  [ms EXCEPT ![top].flags = fl \cap MntFlags]

P_rel == <<97>>

P_a_slash == <<SLASH, 97, SLASH>>

\* what current_dir() returns
Cwds == {<<SLASH>>, P_b}

RemountPaths == {P_a_slash, P_rel, P_b}

\* the flags bare_remount passes to mount(2), without MS_REMOUNT
RemountFlags_bare(self, fl) == apply_to_flags(self, fl)

\* the flags bare_remount passes to mount(2)
RemountFlags(self, fl) == apply_to_flags(self, fl) \cup {MS_REMOUNT}

\* the match at the end of get_mountpoint_flags that takes a missing record
\* for a mount without flags
LocateResult_empty(r, mpath) ==
    IF r.tag = "Ok" /\ r.v # None THEN Ok(from_bits_truncate(r.v.v))
    ELSE IF r.tag = "Ok" THEN Ok({})
    ELSE r

\* the match at the end of get_mountpoint_flags
LocateResult(r, mpath) ==
    IF r.tag = "Ok" /\ r.v # None THEN Ok(from_bits_truncate(r.v.v))
    ELSE IF r.tag = "Ok" THEN Err(RemountError("UnknownMountPoint", [path |-> mpath]))
    ELSE r

\* Path::new("/proc/self/mountinfo")
mountinfo_path == "/proc/self/mountinfo"

\* the io::Error of a failed open, read or current_dir
IoErrors == {"ENOENT", "EACCES"}

\* the message of RemountError::Io without the file it is about
IoMessage_nopath(what, p) == <<what>>

\* format!("<what>{:?}", path): the message of RemountError::Io
IoMessage(what, p) == <<what, p>>

\* the state after Remount::new(path)
InitRemount ==
    /\ mounts \in SeqsUpTo(MountKinds, MaxMounts)
    /\ cwd = Idle
    /\ path \in RemountPaths
    /\ self_flags = MountFlagsDefault
    /\ pc = "new"
    /\ input = Idle /\ content = Idle /\ data = Idle /\ row_num = Idle
    /\ exhausted = Idle /\ items = Idle /\ flags = Idle /\ ret = Idle
    /\ mount_path = Idle /\ found = Idle /\ submitted = Idle
    /\ base = Idle /\ out = Idle

remountFrame == <<data, row_num, exhausted, items, flags, base, out>>

\* one of the setters of Remount: self.flags.<attr> = Some(flag)
Builder ==
    /\ pc = "new"
    /\ Cardinality({a \in Attrs : self_flags[a] # None}) < MaxBuilderCalls
    /\ \E a \in Attrs, flag \in BOOLEAN :
          self_flags' = [self_flags EXCEPT ![a] = Some(flag)]
    /\ UNCHANGED <<pc, input, content, path, ret, mounts, cwd, mount_path,
                   found, submitted>>
    /\ UNCHANGED remountFrame

\* bare_remount enters get_mountpoint_flags: the target path is made
\* absolute, or current_dir() fails
ResolvePath ==
    /\ pc = "new"
    /\ \/ /\ is_absolute(path)
          /\ mount_path' = path
          /\ pc' = "open"
          /\ UNCHANGED <<ret, cwd>>
       \/ /\ ~is_absolute(path)
          /\ \E d \in Cwds :
                /\ cwd' = d
                /\ mount_path' = push(d, path)
          /\ pc' = "open"
          /\ ret' = ret
       \/ /\ ~is_absolute(path)
          /\ \E e \in IoErrors :
                ret' = Err(RemountError("Io", [msg |-> <<e>>, err |-> e]))
          /\ pc' = "done"
          /\ UNCHANGED <<mount_path, cwd>>
    /\ UNCHANGED <<input, content, path, self_flags, mounts, found,
                   submitted>>
    /\ UNCHANGED remountFrame

\* /proc/self/mountinfo is opened and read to its end, or one of the two
\* fails
ReadMountInfo ==
    /\ pc = "open"
    /\ \/ /\ \E e \in IoErrors :
                ret' = Err(RemountError("Io",
                           [msg |-> IoMessage("Cannot open file: ",
                                              mountinfo_path),
                            err |-> e]))
          /\ pc' = "done"
          /\ UNCHANGED <<input, content>>
       \/ /\ \E e \in IoErrors :
                ret' = Err(RemountError("Io",
                           [msg |-> IoMessage("Cannot read file: ",
                                              mountinfo_path),
                            err |-> e]))
          /\ pc' = "done"
          /\ UNCHANGED <<input, content>>
       \/ /\ input' = KernelLayout(mounts)
          /\ content' = Content(KernelLayout(mounts))
          /\ pc' = "locate"
          /\ ret' = ret
    /\ UNCHANGED <<path, self_flags, mounts, cwd, mount_path, found,
                   submitted>>
    /\ UNCHANGED remountFrame

\* get_mountpoint_flags_from and the match on its result, and the `try!`
\* of bare_remount
Locate ==
    /\ pc = "locate"
    /\ LET r == LocateResult(get_mountpoint_flags_from(content, mount_path),
                             mount_path)
       IN  \/ /\ r.tag = "Ok"
              /\ found' = r.v
              /\ pc' = "mount"
              /\ ret' = ret
           \/ /\ r.tag = "Err"
              /\ ret' = r
              /\ pc' = "done"
              /\ found' = found
    /\ UNCHANGED <<input, content, path, self_flags, mounts, cwd, mount_path,
                   submitted>>
    /\ UNCHANGED remountFrame

\* mount(null, path, null, flags, null) and the test of its return code
Mount ==
    /\ pc = "mount"
    /\ submitted' = [target |-> path,
                     flags |-> RemountFlags(self_flags, found)]
    /\ \/ /\ \E i \in 1..Len(mounts) : PathEq(mounts[i].mount_point, mount_path)
          /\ mounts' = Remounted(mounts, mount_path, submitted'.flags)
          /\ ret' = Ok(<<>>)
       \/ /\ ret' = Err(RemountError("Os", [target |-> path]))
          /\ mounts' = mounts
    /\ pc' = "done"
    /\ UNCHANGED <<input, content, path, self_flags, cwd, mount_path, found>>
    /\ UNCHANGED remountFrame

NextRemount == Builder \/ ResolvePath \/ ReadMountInfo \/ Locate \/ Mount

SpecRemount == InitRemount /\ [][NextRemount]_vars

\* C2: when the planner finds the record of the target, the flags passed to
\* mount(2) are the record's flags with the overrides applied, plus
\* MS_REMOUNT; without overrides they are the record's flags plus MS_REMOUNT.
C2_SubmittedFlags ==
    submitted # Idle =>
        LET m == Matching(input, mount_path)
            current == FlagsOfLine(input.lines[m[Len(m)]])
        IN  /\ m # <<>>
            /\ MS_REMOUNT \in submitted.flags
            /\ submitted.flags \ {MS_REMOUNT} = Merged(self_flags, current)
            /\ self_flags = MountFlagsDefault =>
                  submitted.flags = current \cup {MS_REMOUNT}

\* a read-only, nosuid mount was remounted with readonly(false): mount(2)
\* got nosuid and MS_REMOUNT, and succeeded
C2_Witness ==
    /\ submitted # Idle
    /\ self_flags = [MountFlagsDefault EXCEPT !.readonly = Some(FALSE)]
    /\ found = {MS_RDONLY, MS_NOSUID}
    /\ submitted.flags = {MS_NOSUID, MS_REMOUNT}
    /\ ret = Ok(<<>>)

\* the target path made absolute against the working directory
Resolved ==
    IF path[1] = SLASH THEN path
    ELSE IF cwd = <<SLASH>> THEN cwd \o path
    ELSE cwd \o <<SLASH>> \o path

\* C4: when the snapshot parses and holds no record for the target, the
\* planner fails with UnknownMountPoint carrying the resolved path, no flags
\* are computed and mount(2) is not called.
C4_UnknownMountPoint ==
    (pc \in {"mount", "done"} /\ input # Idle /\ AllLinesParse(input)
        /\ Matching(input, mount_path) = <<>>) =>
        /\ pc = "done"
        /\ ret = Err(RemountError("UnknownMountPoint", [path |-> Resolved]))
        /\ submitted = Idle

\* a relative target resolved against a working directory other than the
\* root, not found among the mounts there are
C4_Witness ==
    /\ pc = "done"
    /\ ret = Err(RemountError("UnknownMountPoint", [path |-> P_b \o <<SLASH>> \o P_rel]))
    /\ path = P_rel
    /\ Len(mounts) = 1
    /\ submitted = Idle

\* C19: when /proc/self/mountinfo cannot be opened or read, that one
\* attempt ends the remount with RemountError::Io, which carries the
\* error of the failed call and a message naming /proc/self/mountinfo: no
\* snapshot is kept, no record looked up and mount(2) is not called; and
\* nothing but such a failure ends the attempt without a snapshot.
C19_SnapshotReadFailure ==
    [][/\ (ret'.tag = "Err" /\ ret'.e.variant = "Io" /\ pc = "open") =>
              (/\ ret = Idle
               /\ pc' = "done"
               /\ ret'.e.e.err \in IoErrors
               /\ ret'.e.e.msg \in
                      { <<"Cannot open file: ", "/proc/self/mountinfo">>,
                        <<"Cannot read file: ", "/proc/self/mountinfo">> }
               /\ input' = Idle /\ content' = Idle
               /\ found' = Idle
               /\ submitted' = Idle
               /\ mounts' = mounts)
       /\ (pc = "open" /\ pc' # "open" /\ input' = Idle) =>
              (ret'.tag = "Err" /\ ret'.e.variant = "Io")
       /\ (pc = "done" /\ ret.tag = "Err" /\ ret.e.variant = "Io") =>
              UNCHANGED vars]_vars

\* the target is mounted, but reading /proc/self/mountinfo failed: the
\* remount ended there
C19_Witness ==
    /\ pc = "done"
    /\ ret = Err(RemountError("Io",
                  [msg |-> <<"Cannot read file: ", "/proc/self/mountinfo">>,
                   err |-> "EACCES"]))
    /\ Len(mounts) = 1
    /\ PathEq(mounts[1].mount_point, mount_path)
    /\ input = Idle
    /\ found = Idle
    /\ submitted = Idle

\* C20: the target is made absolute first, a relative one joined onto the
\* working directory and an absolute one kept as given, and no snapshot is
\* read before that; the snapshot is searched for the path so made; and
\* mount(2) gets the path as it was given, not the one made absolute.
C20_ResolveThenRead ==
    [][/\ (pc = "new" /\ pc' = "open") =>
              (/\ mount_path' = Resolved'
               /\ is_absolute(path) => mount_path' = path
               /\ input' = Idle)
       /\ (pc = "open" /\ pc' = "locate") =>
              (/\ mount_path' = mount_path
               /\ mount_path = Resolved
               /\ input = Idle /\ input' # Idle)
       /\ (pc = "locate" /\ pc' = "mount") =>
              LET m == Matching(input, Resolved)
              IN  /\ m # <<>>
                  /\ found' = FlagsOfLine(input.lines[m[Len(m)]])
       /\ (pc = "mount" /\ pc' = "done") =>
              (/\ submitted'.target = path
               /\ path' = path)]_vars

\* the relative target "a" in the working directory "/": the record of
\* "/a" was found and mount(2) was called with "a"
C20_Witness ==
    /\ pc = "done"
    /\ path = P_rel
    /\ ret = Ok(<<>>)
    /\ submitted # Idle
    /\ submitted.target = P_rel
    /\ cwd = <<SLASH>>
    /\ mount_path = P_a
    /\ found = {MS_RDONLY, MS_NOSUID}

\* C26: mount(2) is called at most once, after the path was resolved, the
\* snapshot read and the record of the target found in it, in that order;
\* a failure of one of these ends the remount with its error and without
\* the call; a failed call ends it with an Os error; nothing follows the
\* end.
C26_OneSyscallAfterLookup ==
    [][/\ pc' # pc =>
              <<pc, pc'>> \in { <<"new", "open">>, <<"open", "locate">>,
                                <<"locate", "mount">>, <<"mount", "done">>,
                                <<"new", "done">>, <<"open", "done">>,
                                <<"locate", "done">> }
       /\ submitted' # submitted =>
              (/\ submitted = Idle
               /\ pc = "mount"
               /\ input # Idle
               /\ AllLinesParse(input)
               /\ Matching(input, Resolved) # <<>>)
       /\ (pc' = "done" /\ pc \in {"new", "open", "locate"}) =>
              (/\ ret'.tag = "Err"
               /\ submitted' = Idle
               /\ mounts' = mounts
               /\ ret'.e.variant \in
                      IF pc = "locate"
                      THEN {"ParseMountInfo", "UnknownMountPoint"}
                      ELSE {"Io"})
       /\ pc = "mount" =>
              (/\ pc' = "done"
               /\ submitted' # Idle
               /\ \/ ret' = Ok(<<>>)
                  \/ ret' = Err(RemountError("Os", [target |-> path])))
       /\ pc = "done" => UNCHANGED vars]_vars

\* the record was found and mount(2) failed: the Os error is the result
C26_Witness ==
    /\ pc = "done"
    /\ ret = Err(RemountError("Os", [target |-> path]))
    /\ submitted # Idle
    /\ input # Idle
    /\ Matching(input, mount_path) # <<>>

---------------------------------------------------------------------------
(* unescape_octals on its own, and in a row *)

MaxEscLen   == 5
MaxPlainLen == 3

D4 == 52
D8 == 56
XFF == 255

\* the bytes of a field as the file holds it: backslashes, octal digits and
\* a digit that is not octal
EscBytes == {BSLASH, D0, D4, D7, D8}

\* the bytes of a path as the kernel holds it: the four it escapes, a
\* digit, a byte no UTF-8 text holds
PlainBytes == {SP, TAB, LF, BSLASH, D4, XFF}

\* the three octal digits of a byte
Octal3(c) == <<D0 + (c \div 64), D0 + ((c \div 8) % 8), D0 + (c % 8)>>

\* the kernel's escaping of a field of mountinfo
RECURSIVE kernel_style_encode(_)
kernel_style_encode(b) ==
    IF b = <<>> THEN <<>>
    ELSE (IF b[1] \in {SP, TAB, LF, BSLASH}
          THEN <<BSLASH>> \o Octal3(b[1]) ELSE <<b[1]>>)
         \o kernel_style_encode(Tail(b))

\* the row whose mount point is "/" followed by the field text `f`
RowWith(f) == Bytes(Record(<<49>>, <<50>>, <<SLASH>> \o f, <<W_rw>>, <<>>, 0, 0))

InitDecode ==
    /\ input \in [kind : {"raw"}, bytes : SeqsUpTo(EscBytes, MaxEscLen)]
             \cup [kind : {"plain"}, bytes : SeqsUpTo(PlainBytes, MaxPlainLen)]
    /\ pc = "decode"
    /\ content = Idle /\ out = Idle /\ ret = Idle
    /\ data = Idle /\ row_num = Idle /\ exhausted = Idle /\ items = Idle
    /\ path = Idle /\ flags = Idle /\ self_flags = Idle /\ mounts = Idle
    /\ cwd = Idle /\ mount_path = Idle /\ found = Idle /\ submitted = Idle
    /\ base = Idle

decodeFrame ==
    <<input, data, row_num, exhausted, items, path, flags, self_flags,
      mounts, cwd, mount_path, found, submitted, base>>

\* unescape_octals(field), and parse_mount_point of a row holding the field
Decode ==
    /\ pc = "decode"
    /\ input.kind = "raw"
    /\ content' = RowWith(input.bytes)
    /\ out' = unescape_octals(input.bytes)
    /\ ret' = parse_mount_point(RowWith(input.bytes))
    /\ pc' = "decoded"
    /\ UNCHANGED decodeFrame

\* unescape_octals of what the kernel writes for a path
DecodeEncoded ==
    /\ pc = "decode"
    /\ input.kind = "plain"
    /\ content' = kernel_style_encode(input.bytes)
    /\ out' = unescape_octals(kernel_style_encode(input.bytes))
    /\ ret' = ret
    /\ pc' = "decoded"
    /\ UNCHANGED decodeFrame

NextDecode == Decode \/ DecodeEncoded

SpecDecode == InitDecode /\ [][NextDecode]_vars

\* a backslash and three octal digits stand at position i of s
EscapeAt(s, i) ==
    /\ i + 3 <= Len(s)
    /\ s[i] = BSLASH
    /\ \A k \in 1..3 : s[i + k] \in D0..D7

EscapeStarts(s) == {i \in 1..Len(s) : EscapeAt(s, i)}

\* the positions of s that are no digit of an escape, in order
KeptPositions(s) ==
    SelectSeq([i \in 1..Len(s) |-> i],
              LAMBDA i : \A e \in EscapeStarts(s) : ~(e < i /\ i <= e + 3))

\* the byte an escape at position i stands for
OctalValue(s, i) ==
    (64 * (s[i + 1] - D0) + 8 * (s[i + 2] - D0) + (s[i + 3] - D0)) % 256

\* s with every escape replaced by its byte
Decoded(s) ==
    [k \in 1..Len(KeptPositions(s)) |->
        IF KeptPositions(s)[k] \in EscapeStarts(s)
        THEN OctalValue(s, KeptPositions(s)[k])
        ELSE s[KeptPositions(s)[k]]]

\* where the byte at position i of s, no digit of an escape, lands
PosOut(s, i) == i - 3 * Cardinality({e \in EscapeStarts(s) : e < i})

\* the row parsed to a record whose mount point is "/" and then `f`
ParsedWith(f) ==
    /\ ret.tag = "Ok"
    /\ ret.v # None
    /\ ret.v.v.mount_point = <<SLASH>> \o f

\* C11: every backslash followed by three octal digits a, b, c becomes the
\* byte (64a + 8b + c) mod 256 and everything else is kept; \777 gives 255
\* and \400 gives 0; the row holding the field parses to a record with the
\* decoded mount point.
C11_OctalDecoding ==
    (pc = "decoded" /\ input.kind = "raw") =>
        /\ out = Decoded(input.bytes)
        /\ input.bytes = <<BSLASH, D7, D7, D7>> => out = <<XFF>>
        /\ input.bytes = <<BSLASH, D4, D0, D0>> => out = <<0>>
        /\ ParsedWith(out)

\* \400 after a literal byte was decoded to the byte 0, in a row that parsed
C11_Witness ==
    /\ pc = "decoded"
    /\ input.bytes = <<D8, BSLASH, D4, D0, D0>>
    /\ out = <<D8, 0>>
    /\ ParsedWith(<<D8, 0>>)

\* the backslashes of s that start no escape
LiteralBackslashes(s) ==
    {i \in 1..Len(s) : s[i] = BSLASH /\ ~EscapeAt(s, i)}

\* the up to three bytes after position i of s
After3(s, i) == SubSeq(s, i + 1, IF i + 3 <= Len(s) THEN i + 3 ELSE Len(s))

\* C12 as stated: a backslash not followed by three octal digits is copied
\* to the output together with the bytes after it, and the row parses.
C12_LiteralBackslashAndTail ==
    (pc = "decoded" /\ input.kind = "raw") =>
        /\ \A i \in LiteralBackslashes(input.bytes) :
              LET p == PosOut(input.bytes, i)
                  t == After3(input.bytes, i)
              IN  /\ p + Len(t) <= Len(out)
                  /\ SubSeq(out, p, p + Len(t)) = <<BSLASH>> \o t
        /\ ret.tag = "Ok"

\* C12: a backslash not followed by three octal digits is copied to the
\* output, and so are the bytes after it up to the next escape; a field
\* without an escape is returned as it is; the row parses.
C12_LiteralBackslash ==
    (pc = "decoded" /\ input.kind = "raw") =>
        /\ \A i \in LiteralBackslashes(input.bytes) :
              /\ out[PosOut(input.bytes, i)] = BSLASH
              /\ \A k \in 1..Len(After3(input.bytes, i)) :
                    (\A j \in (i + 1)..(i + k) : ~EscapeAt(input.bytes, j))
                        => out[PosOut(input.bytes, i) + k] = input.bytes[i + k]
        /\ EscapeStarts(input.bytes) = {} => out = input.bytes
        /\ ParsedWith(out)

\* a backslash followed by two octal digits and one that is not, and a
\* backslash at the end, came out unchanged in a row that parsed
C12_Witness ==
    /\ pc = "decoded"
    /\ input.bytes = <<BSLASH, D4, D0, D8, BSLASH>>
    /\ out = input.bytes
    /\ ParsedWith(input.bytes)

\* C13: decoding what the kernel writes for a path gives the path back,
\* escaped bytes and bytes outside UTF-8 included, with three digits for
\* each escaped byte; a path with none of the four escaped bytes is written
\* and decoded as it is.
C13_RoundTrip ==
    (pc = "decoded" /\ input.kind = "plain") =>
        /\ out = input.bytes
        /\ Len(content) = Len(input.bytes)
              + 3 * Cardinality({i \in 1..Len(input.bytes) :
                                   input.bytes[i] \in {SP, TAB, LF, BSLASH}})
        /\ (\A i \in 1..Len(input.bytes) :
                input.bytes[i] \notin {SP, TAB, LF, BSLASH})
              => (content = input.bytes /\ out = content)

\* a backslash followed by a digit and a byte outside UTF-8 came back from
\* its escaped form
C13_Witness ==
    /\ pc = "decoded"
    /\ input.kind = "plain"
    /\ input.bytes = <<BSLASH, D4, XFF>>
    /\ content = <<BSLASH, 49, 51, D4, D4, XFF>>
    /\ out = input.bytes

---------------------------------------------------------------------------
(* MountPoint::get_mount_flags on its own *)

MaxOpts == 2

W_rox == <<114, 111, 120>>

\* the tokens of mount_options: the words get_mount_flags knows, rw, a
\* word that only begins like one it knows, and the empty token
OptionTokens ==
    {W_ro, W_nosuid, W_nodev, W_noexec, W_mand, W_sync, W_dirsync, W_noatime,
     W_nodiratime, W_relatime, W_strictatime, W_rw, W_rox, <<>>}

\* the record of a mount with the options `opts`
MountPointWith(opts) ==
    MountPoint(<<49>>, <<50>>, <<D0>>, <<D4>>, <<SLASH>>, P_a, JoinWith(opts, <<COMMA>>), <<>>, <<116>>, <<115>>, W_rw)

InitOptions ==
    /\ input \in [opts : SeqsUpTo(OptionTokens, MaxOpts)]
    /\ pc = "options"
    /\ content = Idle /\ out = Idle /\ ret = Idle
    /\ data = Idle /\ row_num = Idle /\ exhausted = Idle /\ items = Idle
    /\ path = Idle /\ flags = Idle /\ self_flags = Idle /\ mounts = Idle
    /\ cwd = Idle /\ mount_path = Idle /\ found = Idle /\ submitted = Idle
    /\ base = Idle

\* mount_point.get_mount_flags()
GetMountFlags ==
    /\ pc = "options"
    /\ content' = MountPointWith(input.opts).mount_options
    /\ out' = get_mount_flags(MountPointWith(input.opts))
    /\ pc' = "flagged"
    /\ UNCHANGED <<ret, input, data, row_num, exhausted, items, path, flags,
                   self_flags, mounts, cwd, mount_path, found, submitted,
                   base>>

NextOptions == GetMountFlags

SpecOptions == InitOptions /\ [][NextOptions]_vars

\* C14: the flags of a record are the bits of the known words among the
\* tokens of mount_options, whatever their order and number; rw, unknown
\* words and empty tokens add nothing.
C14_FlagsFromOptions ==
    pc = "flagged" =>
        /\ out = FlagsOfLine(input)
        /\ \A k \in 1..Len(input.opts) :
              input.opts[k] \in {W_rw, W_rox, <<>>} =>
                  out = FlagsOfLine([opts |-> SelectSeq(input.opts,
                                        LAMBDA w : w # input.opts[k])])

\* "rw,nosuid": the second token gave its bit, the first gave none
C14_Witness ==
    /\ pc = "flagged"
    /\ content = W_rw \o <<COMMA>> \o W_nosuid
    /\ out = {MS_NOSUID}

---------------------------------------------------------------------------
(* The integer fields of a row *)

D1 == 49

\* "18446744073709551616": c_ulong::MAX + 1
ULONG_MAX_plus_1 == <<49,56,52,52,54,55,52,52,48,55,51,55,48,57,53,53,49,54,49,54>>

\* the texts of an integer field, each with what it is (a decimal numeral
\* in range, one out of range, no numeral) and the number it writes
IntTexts ==
    { [text |-> <<D0, D7>>, class |-> "valid", value |-> <<D7>>],
      [text |-> ULONG_MAX, class |-> "valid", value |-> ULONG_MAX],
      [text |-> ULONG_MAX_plus_1, class |-> "overflow", value |-> <<>>],
      [text |-> [i \in 1..21 |-> D1], class |-> "overflow", value |-> <<>>],
      [text |-> <<50, 98>>, class |-> "malformed", value |-> <<>>],
      [text |-> <<PLUS, D1>>, class |-> "malformed", value |-> <<>>],
      [text |-> <<DASH, D1>>, class |-> "malformed", value |-> <<>>],
      [text |-> <<XFF>>, class |-> "malformed", value |-> <<>>] }

IntFields == <<"mount_id", "parent_id", "major", "minor">>

\* the row with the four integer fields given
RowOfInts(in) ==
    Bytes([Record(in[1].text, in[2].text, P_a, <<W_rw>>, <<>>, 0, 0)
             EXCEPT !.dev = in[3].text \o <<COLON>> \o in[4].text])

InitInt ==
    /\ input \in [1..4 -> IntTexts]
    /\ pc = "row"
    /\ content = Idle /\ out = Idle /\ ret = Idle
    /\ data = Idle /\ row_num = Idle /\ exhausted = Idle /\ items = Idle
    /\ path = Idle /\ flags = Idle /\ self_flags = Idle /\ mounts = Idle
    /\ cwd = Idle /\ mount_path = Idle /\ found = Idle /\ submitted = Idle
    /\ base = Idle

\* parse_mount_point(row)
ParseRow ==
    /\ pc = "row"
    /\ content' = RowOfInts(input)
    /\ ret' = parse_mount_point(RowOfInts(input))
    /\ pc' = "parsed"
    /\ UNCHANGED <<out, input, data, row_num, exhausted, items, path, flags,
                   self_flags, mounts, cwd, mount_path, found, submitted,
                   base>>

NextInt == ParseRow

SpecInt == InitInt /\ [][NextInt]_vars

\* the integer fields of the row that are no numeral in range
BadInts(in) == {k \in 1..4 : in[k].class # "valid"}

\* C15: a row whose integer fields are numerals in range gives their
\* values; otherwise the first field that is no unsigned decimal numeral,
\* or is out of range, gives the error "Cannot parse integer" with the
\* field's text, the same for both, and no record.
C15_IntegerErrors ==
    pc = "parsed" =>
        IF BadInts(input) = {}
        THEN /\ ret.tag = "Ok"
             /\ \A k \in 1..4 : ret.v.v[IntFields[k]] = input[k].value
        ELSE LET k == CHOOSE b \in BadInts(input) :
                         \A c \in BadInts(input) : b <= c
             IN  /\ ret.tag = "Err"
                 /\ ret.e.msg = "Cannot parse integer"
                 /\ ret.e.field = from_utf8_lossy(input[k].text)

---------------------------------------------------------------------------
(* A caller that keeps calling Parser::next, also after it returned None *)

MaxCalls == 4

\* the lines of the buffers: records, a malformed one, a comment, a blank
\* line and a line of one space
CallLines ==
    { Record(<<49>>, <<50>>, P_a, <<W_rw>>, <<>>, 0, 0),
      Record(<<50>>, <<50>>, P_b, <<W_ro, W_nosuid>>, <<T_x1>>, 0, 0),
      Record(<<49, 48>>, <<50, 98>>, P_a, <<W_rw>>, <<>>, 0, 0),
      Text("comment", <<HASH, 99>>),
      Text("blank", <<>>),
      Text("text", <<SP>>) }

CallInputs == [lines : SeqsUpTo(CallLines, MaxLines), style : Styles]

InitCalls ==
    /\ input \in CallInputs
    /\ content = Content(input)
    /\ data = ParserNew(content).data
    /\ row_num = ParserNew(content).row_num
    /\ exhausted = ParserNew(content).exhausted
    /\ items = <<>>
    /\ out = <<>>
    /\ pc = "call"
    /\ path = Idle /\ flags = Idle /\ ret = Idle /\ self_flags = Idle
    /\ mounts = Idle /\ cwd = Idle /\ mount_path = Idle /\ found = Idle
    /\ submitted = Idle /\ base = Idle

\* one call of Parser::next; out keeps what every call returned
CallNext ==
    /\ pc = "call"
    /\ Len(out) < MaxCalls
    /\ LET r == ParserNext(Parser(data, row_num, exhausted))
       IN  /\ data' = r.parser.data
           /\ row_num' = r.parser.row_num
           /\ exhausted' = r.parser.exhausted
           /\ items' = IF r.item = None THEN items ELSE Append(items, r.item.v)
           /\ out' = Append(out, r.item)
    /\ UNCHANGED <<pc, input, content, path, flags, ret, self_flags, mounts,
                   cwd, mount_path, found, submitted, base>>

NextCalls == CallNext

SpecCalls == InitCalls /\ [][NextCalls]_vars

\* C16: the calls of next() give at most as many items as the buffer has
\* lines, the call after that many gives None, after a None every later
\* call gives None, the items are the results of the lines in buffer order,
\* each line once, and what is left to read is always a tail of the buffer.
C16_FiniteForwardOnly ==
    pc = "call" =>
        LET y == Yielding(input)
            expected == [j \in 1..Len(y) |->
                            AsItem(parse_mount_point(RowOf(input, y[j])))]
        IN  /\ Len(items) <= Len(input.lines)
            /\ Len(out) > Len(input.lines) => out[Len(out)] = None
            /\ \A i, j \in 1..Len(out) :
                   i < j /\ out[i] = None => out[j] = None
            /\ IsPrefix(Results, expected)
            /\ \E k \in 0..Len(content) : data = From(content, k)

\* every line of the buffer was yielded, the last of them without a newline
\* after it and so still in data, and two more calls gave None
C16_Witness ==
    /\ pc = "call"
    /\ Len(out) = MaxCalls
    /\ Len(items) = Len(input.lines)
    /\ Len(items) >= 1
    /\ input.style.last = "none"
    /\ data # <<>>
    /\ out[Len(out) - 1] = None
    /\ out[Len(out)] = None


\* the bytes next() has consumed: the buffer without what data still holds
Consumed == SubSeq(content, 1, Len(content) - Len(data))

\* the parser's position: data is the rest of the buffer after the bytes
\* consumed, and row_num counts the newlines among those
PositionInv ==
    /\ Len(data) <= Len(content)
    /\ Consumed \o data = content
    /\ row_num = Cardinality({i \in 1..Len(Consumed) : Consumed[i] = LF})

\* C27: before and after every call of next() the bytes consumed followed
\* by the bytes still held are the buffer and row_num is the number of
\* newlines consumed, the lines skipped included; a call never makes the
\* rest longer nor row_num smaller.
C27_ParserPosition ==
    [][/\ PositionInv
       /\ PositionInv'
       /\ Len(data') <= Len(data)
       /\ row_num' >= row_num]_vars

\* two lines, a comment or blank each, were consumed without an item:
\* row_num counts both
C27_Witness ==
    /\ pc = "call"
    /\ Len(input.lines) = 2
    /\ input.style.last = "eol"
    /\ Len(out) >= 1
    /\ items = <<>>
    /\ data = <<>>
    /\ row_num = 2

---------------------------------------------------------------------------
(* Overlay: the options string of the overlayfs mount *)

W_lowerdir == <<108, 111, 119, 101, 114, 100, 105, 114, 61>>
W_upperdir == <<COMMA, 117, 112, 112, 101, 114, 100, 105, 114, 61>>
W_workdir  == <<COMMA, 119, 111, 114, 107, 100, 105, 114, 61>>
W_overlay  == <<111, 118, 101, 114, 108, 97, 121>>

\* what append_escape pushes for one byte, the comma left as it is
EscapeByte_nocomma(byte) ==
    IF byte = BSLASH THEN <<BSLASH, BSLASH>>
    ELSE IF byte = COLON THEN <<BSLASH, COLON>>
    ELSE <<byte>>

\* the match of append_escape: what is pushed for one byte
EscapeByte(byte) ==
    IF byte = BSLASH THEN <<BSLASH, BSLASH>>
    ELSE IF byte = COLON THEN <<BSLASH, COLON>>
    ELSE IF byte = COMMA THEN <<BSLASH, COMMA>>
    ELSE <<byte>>

\* the for loop of append_escape from byte i on
RECURSIVE AppendEscapeFrom(_, _, _)
AppendEscapeFrom(dest, p, i) ==
    IF i > Len(p) THEN dest
    ELSE AppendEscapeFrom(dest \o EscapeByte(p[i]), p, i + 1)

\* append_escape that pushes the path as it is
append_escape_raw(dest, p) == dest \o p

append_escape(dest, p) == AppendEscapeFrom(dest, p, 1)

Overlay(lowerdirs, upperdir, workdir, target) ==
    [lowerdirs |-> lowerdirs, upperdir |-> upperdir, workdir |-> workdir,
     target |-> target]

\* Overlay::readonly
readonly(dirs, target) == Overlay(dirs, None, None, target)

\* Overlay::writable
writable(lowerdirs, upperdir, workdir, target) ==
    Overlay(lowerdirs, Some(upperdir), Some(workdir), target)

\* the for loop over lowerdirs of bare_mount, from index i (0-based) on
RECURSIVE LowerdirsFrom(_, _, _)
LowerdirsFrom(options, dirs, i) ==
    IF i >= Len(dirs) THEN options
    ELSE LowerdirsFrom(
             append_escape(IF i # 0 THEN Append(options, COLON) ELSE options,
                           dirs[i + 1]),
             dirs, i + 1)

\* the options bare_mount builds
OverlayOptions(self) ==
    Only({ IF self.upperdir # None /\ self.workdir # None
           THEN append_escape(
                    append_escape(lower \o W_upperdir, self.upperdir.v)
                        \o W_workdir,
                    self.workdir.v)
           ELSE lower
         : lower \in {LowerdirsFrom(W_lowerdir, self.lowerdirs, 0)} })

MaxDirs == 2

\* directories whose names hold the bytes append_escape treats, and the
\* empty path
OverlayPaths ==
    { P_a, <<SLASH, COLON, COMMA>>, <<BSLASH, 97>>, <<SLASH, 97, COMMA, 98>>,
      <<97, BSLASH>>, <<>> }

Overlays ==
    { readonly(d, P_b) : d \in SeqsUpTo(OverlayPaths, MaxDirs) }
    \cup { writable(a[1], a[2], a[3], P_b) :
             a \in SeqsUpTo(OverlayPaths, MaxDirs) \X OverlayPaths
                     \X OverlayPaths }

InitOverlay ==
    /\ base \in Overlays
    /\ pc = "overlay"
    /\ submitted = Idle /\ ret = Idle
    /\ input = Idle /\ content = Idle /\ out = Idle
    /\ data = Idle /\ row_num = Idle /\ exhausted = Idle /\ items = Idle
    /\ path = Idle /\ flags = Idle /\ self_flags = Idle /\ mounts = Idle
    /\ cwd = Idle /\ mount_path = Idle /\ found = Idle

\* Overlay::bare_mount: the mount syscall succeeds or fails
OverlayBareMount ==
    /\ pc = "overlay"
    /\ submitted' = [source |-> W_overlay, target |-> base.target,
                     fstype |-> W_overlay, flags |-> {},
                     data |-> OverlayOptions(base)]
    /\ \E ok \in BOOLEAN :
           ret' = IF ok THEN Ok(<<>>) ELSE Err([tag |-> "OSError"])
    /\ pc' = "mounted"
    /\ UNCHANGED <<base, input, content, out, data, row_num, exhausted, items,
                   path, flags, self_flags, mounts, cwd, mount_path, found>>

NextOverlay == OverlayBareMount

SpecOverlay == InitOverlay /\ [][NextOverlay]_vars

\* a path with backslash, colon and comma each preceded by a backslash
Escaped(p) ==
    JoinWith([i \in 1..Len(p) |->
                 IF p[i] \in {BSLASH, COLON, COMMA} THEN <<BSLASH, p[i]>>
                 ELSE <<p[i]>>], <<>>)

\* C17: the options handed to mount are "lowerdir=", the escaped lowerdirs
\* in list order with ':' between them, and then ",upperdir=" and
\* ",workdir=" with their escaped paths exactly when both are set.
C17_OverlayOptions ==
    pc = "mounted" =>
        submitted.data =
            W_lowerdir
            \o JoinWith([i \in 1..Len(base.lowerdirs) |->
                            Escaped(base.lowerdirs[i])], <<COLON>>)
            \o (IF base.upperdir # None /\ base.workdir # None
                THEN W_upperdir \o Escaped(base.upperdir.v)
                     \o W_workdir \o Escaped(base.workdir.v)
                ELSE <<>>)

\* a writable overlay of two lowerdirs, with a colon and a comma in one
\* and a backslash in the upperdir
C17_Witness ==
    /\ pc = "mounted"
    /\ base.lowerdirs = <<<<SLASH, COLON, COMMA>>, P_a>>
    /\ base.upperdir = Some(<<BSLASH, 97>>)
    /\ base.workdir = Some(<<SLASH, 97, COMMA, 98>>)
    /\ submitted.data =
           W_lowerdir \o <<SLASH, BSLASH, COLON, BSLASH, COMMA, COLON>>
           \o P_a \o W_upperdir \o <<BSLASH, BSLASH, 97>>
           \o W_workdir \o <<SLASH, 97, BSLASH, COMMA, 98>>

---------------------------------------------------------------------------
(* Remount::bare_remount while another process remounts the same mounts *)

\* the per-mount flags the other process switches
RaceFlags == {MS_RDONLY, MS_NOEXEC}

\* another process remounts mount i with one flag switched, once, after
\* the snapshot was read and before mount(2) is called; base keeps its
\* request
OtherRemount ==
    /\ pc \in {"locate", "mount"}
    /\ base = Idle
    /\ \E i \in 1..Len(mounts), f \in RaceFlags :
          /\ mounts' = [mounts EXCEPT ![i].flags =
                            IF f \in @ THEN @ \ {f} ELSE @ \cup {f}]
          /\ base' = [mount |-> i, flags |-> mounts'[i].flags]
    /\ UNCHANGED <<pc, input, content, path, self_flags, cwd, mount_path,
                   found, submitted, ret, data, row_num, exhausted, items,
                   flags, out>>

\* the overrides of the Remount: none, one forced off, one forced on
RaceOverrides ==
    { MountFlagsDefault,
      [MountFlagsDefault EXCEPT !.readonly = Some(FALSE)],
      [MountFlagsDefault EXCEPT !.nosuid = Some(TRUE)] }

\* the state after Remount::new(path) and its setters
InitRace ==
    /\ mounts \in SeqsUpTo(MountKinds, MaxMounts)
    /\ cwd = Idle
    /\ path \in RemountPaths
    /\ self_flags \in RaceOverrides
    /\ pc = "new"
    /\ input = Idle /\ content = Idle /\ data = Idle /\ row_num = Idle
    /\ exhausted = Idle /\ items = Idle /\ flags = Idle /\ ret = Idle
    /\ mount_path = Idle /\ found = Idle /\ submitted = Idle
    /\ base = Idle /\ out = Idle

NextRace == ResolvePath \/ ReadMountInfo \/ Locate \/ Mount \/ OtherRemount

SpecRace == InitRace /\ [][NextRace]_vars

\* the per-mount flags of the topmost mount at `target`
ActualFlags(ms, target) ==
    LET at == {i \in 1..Len(ms) : PathEq(ms[i].mount_point, target)}
        top == CHOOSE i \in at : \A j \in at : j <= i
    IN  ms[top].flags

\* C18: the flags handed to mount(2) are made from the snapshot read
\* earlier: for every attribute without an override the bit submitted is
\* the bit of the snapshot, whatever another process made of the mount in
\* between; when no other process remounted in between, it is also the bit
\* the mount has when mount(2) is called.
C18_SubmitsSnapshotFlags ==
    [][(pc = "mount" /\ pc' = "done") =>
          LET m == Matching(input, mount_path)
              snapshot == FlagsOfLine(input.lines[m[Len(m)]])
              actual == ActualFlags(mounts, mount_path)
          IN  \A a \in Attrs :
                  self_flags[a] = None =>
                      /\ AttrFlag[a] \in submitted'.flags
                             <=> AttrFlag[a] \in snapshot
                      /\ base = Idle =>
                            (AttrFlag[a] \in submitted'.flags
                                 <=> AttrFlag[a] \in actual)]_vars

\* the snapshot showed the mount writable, another process then made it
\* read-only, and the remount without overrides submitted the flags of the
\* snapshot: mount(2) succeeded and the mount is writable again
C18_Witness ==
    /\ pc = "done"
    /\ base # Idle
    /\ base.flags = {MS_RDONLY}
    /\ PathEq(mounts[base.mount].mount_point, mount_path)
    /\ self_flags = MountFlagsDefault
    /\ found = {}
    /\ submitted # Idle
    /\ MS_RDONLY \notin submitted.flags
    /\ ret = Ok(<<>>)
    /\ mounts[base.mount].flags = {}

---------------------------------------------------------------------------
(* BindMount::bare_mount *)

MS_REC == 16384

BindMount(source, target, recursive, ro) ==
    [source |-> source, target |-> target, recursive |-> recursive,
     readonly |-> ro]

\* BindMount::new(source, target).recursive(r).readonly(ro)
BindMounts ==
    { BindMount(s, t, r, ro) :
        s \in {P_a, P_b}, t \in {P_a, P_b, P_rel}, r \in BOOLEAN,
        ro \in BOOLEAN }

\* the flags of the first mount call
BindFlags(self) == {MS_BIND} \cup (IF self.recursive THEN {MS_REC} ELSE {})

\* a bare_mount that remounts whatever self.readonly is
NeedsRemount_always(self) == TRUE

\* `if self.readonly`
NeedsRemount(self) == self.readonly

\* how Remount::bare_remount can end: with an error before mount(2) is
\* called, with the error of mount(2), or well
RemountOutcomes ==
    { Err(RemountError(v, [target |-> <<>>])) :
        v \in {"Io", "ParseMountInfo", "UnknownMountPoint", "Os"} }
    \cup {Ok(<<>>)}

InitBind ==
    /\ base \in BindMounts
    /\ input \in SeqsUpTo(MountKinds, MaxMounts)
    /\ mounts = input
    /\ items = <<>>
    /\ pc = "bind"
    /\ ret = Idle /\ out = Idle
    /\ content = Idle /\ data = Idle /\ row_num = Idle /\ exhausted = Idle
    /\ path = Idle /\ flags = Idle /\ self_flags = Idle /\ cwd = Idle
    /\ mount_path = Idle /\ found = Idle /\ submitted = Idle

bindFrame ==
    <<base, input, content, data, row_num, exhausted, path, flags,
      self_flags, cwd, mount_path, found, submitted>>

\* mount(source, target, None, flags, None) and the test of its result
BindSyscall ==
    /\ pc = "bind"
    /\ \E ok \in BOOLEAN :
          /\ items' = Append(items, [call |-> "mount", source |-> base.source,
                                     target |-> base.target,
                                     flags |-> BindFlags(base), ok |-> ok])
          /\ IF ok
             THEN /\ mounts' = Append(mounts, [mount_point |-> base.target,
                                               flags |-> {},
                                               source |-> base.source])
                  /\ pc' = "bound"
                  /\ ret' = ret
             ELSE /\ mounts' = mounts
                  /\ pc' = "returned"
                  /\ ret' = Err([tag |-> "OSError", variant |-> "Io"])
    /\ out' = out
    /\ UNCHANGED bindFrame

\* Remount::new(target).bind(true).readonly(true).bare_remount() under try!
BindRemount ==
    /\ pc = "bound"
    /\ NeedsRemount(base)
    /\ items' = Append(items, [call |-> "bare_remount", path |-> base.target,
                               bind |-> TRUE, readonly |-> TRUE])
    /\ \E r \in RemountOutcomes :
          /\ out' = r
          /\ mounts' = IF r.tag = "Ok"
                       THEN [mounts EXCEPT ![Len(mounts)].flags = {MS_RDONLY}]
                       ELSE mounts
          /\ ret' = IF r.tag = "Ok" THEN Ok(<<>>)
                    ELSE Err([tag |-> "OSError", variant |-> "Remount"])
    /\ pc' = "returned"
    /\ UNCHANGED bindFrame

\* the Ok(()) of a bind mount that is not readonly
BindReturn ==
    /\ pc = "bound"
    /\ ~NeedsRemount(base)
    /\ ret' = Ok(<<>>)
    /\ pc' = "returned"
    /\ UNCHANGED <<items, mounts, out>>
    /\ UNCHANGED bindFrame

NextBind == BindSyscall \/ BindRemount \/ BindReturn

SpecBind == InitBind /\ [][NextBind]_vars

\* C21: the first call is the bind mount; a remount with bind and readonly
\* follows it only when readonly(true) was asked for and the bind mount
\* succeeded; a failed bind mount is returned with no remount tried; a
\* failed remount is returned with the bind mount still in the mount table
\* and no further call; without readonly(true) the bind mount is the only
\* call.
C21_BindThenRemount ==
    /\ Len(items) <= 2
    /\ \A i \in 1..Len(items) :
          IF i = 1
          THEN /\ items[i].call = "mount"
               /\ items[i].source = base.source
               /\ items[i].target = base.target
               /\ MS_BIND \in items[i].flags
               /\ MS_REMOUNT \notin items[i].flags
          ELSE /\ items[i] = [call |-> "bare_remount", path |-> base.target,
                              bind |-> TRUE, readonly |-> TRUE]
               /\ items[1].ok
               /\ base.readonly
    /\ pc = "returned" =>
          /\ Len(items) >= 1
          /\ ~items[1].ok => (Len(items) = 1 /\ ret.tag = "Err"
                                /\ mounts = input)
          /\ (items[1].ok /\ base.readonly) => Len(items) = 2
          /\ ~base.readonly => Len(items) = 1
          /\ items[1].ok => /\ Len(mounts) = Len(input) + 1
                            /\ mounts[Len(mounts)].mount_point = base.target
          /\ (Len(items) = 2 /\ out.tag = "Err") =>
                (ret.tag = "Err" /\ mounts[Len(mounts)].flags = {})
          /\ (items[1].ok /\ (Len(items) = 1 \/ out.tag = "Ok")) =>
                ret = Ok(<<>>)

\* the bind mount succeeded and the remount that followed failed: the error
\* is returned and the bind mount is still there, writable
C21_Witness ==
    /\ pc = "returned"
    /\ Len(items) = 2
    /\ items[1].ok
    /\ out.tag = "Err"
    /\ ret.tag = "Err"
    /\ Len(mounts) = Len(input) + 1
    /\ mounts[Len(mounts)].flags = {}

---------------------------------------------------------------------------
(* Tmpfs::format_options *)

K_size      == <<115, 105, 122, 101, 61>>
K_nr_blocks == <<110, 114, 95, 98, 108, 111, 99, 107, 115, 61>>
K_nr_inodes == <<110, 114, 95, 105, 110, 111, 100, 101, 115, 61>>
K_mode      == <<109, 111, 100, 101, 61, 48>>
K_uid       == <<117, 105, 100, 61>>
K_gid       == <<103, 105, 100, 61>>

\* "{}" of an unsigned integer: its decimal digits
RECURSIVE Dec(_)
Dec(n) == IF n < 10 THEN <<D0 + n>> ELSE Append(Dec(n \div 10), D0 + (n % 10))

\* "{:o}" of an unsigned integer: its octal digits
RECURSIVE Oct(_)
Oct(n) == IF n < 8 THEN <<D0 + n>> ELSE Append(Oct(n \div 8), D0 + (n % 8))

\* "{:04o}": the octal digits, filled with zeros to four
Oct04(n) == [i \in 1..(IF Len(Oct(n)) < 4 THEN 4 - Len(Oct(n)) ELSE 0) |-> D0] \o Oct(n)

Auto == [tag |-> "Auto"]

Tmpfs(size, nr_inodes, mode, uid, gid) ==
    [size |-> size, nr_inodes |-> nr_inodes, mode |-> mode, uid |-> uid,
     gid |-> gid]

\* Tmpfs::new
TmpfsNew == Tmpfs(Auto, None, None, None, None)

\* the setters of Tmpfs with their arguments
TmpfsCalls ==
    [m : {"size_bytes"}, v : {0, 1048576}] \cup [m : {"size_blocks"}, v : {7}]
    \cup [m : {"nr_inodes"}, v : {1024}] \cup [m : {"mode"}, v : {493, 1023}]
    \cup [m : {"uid"}, v : {0, 1000}] \cup [m : {"gid"}, v : {1000}]

\* one setter applied
TmpfsSet(self, c) ==
    CASE c.m = "size_bytes"  -> [self EXCEPT !.size = [tag |-> "Bytes", v |-> c.v]]
      [] c.m = "size_blocks" -> [self EXCEPT !.size = [tag |-> "Blocks", v |-> c.v]]
      [] c.m = "nr_inodes"   -> [self EXCEPT !.nr_inodes = Some(c.v)]
      [] c.m = "mode"        -> [self EXCEPT !.mode = Some(c.v)]
      [] c.m = "uid"         -> [self EXCEPT !.uid = Some(c.v)]
      [] c.m = "gid"         -> [self EXCEPT !.gid = Some(c.v)]

\* a separator written whether or not the cursor has moved
Comma_always(cur) == Append(cur, COMMA)

\* if cur.position() != 0 { cur.write(b",") }
Comma(cur) == IF Len(cur) # 0 THEN Append(cur, COMMA) ELSE cur

\* Tmpfs::format_options
format_options(self) ==
    Only({ c5
         : c5 \in {IF self.gid # None
                   THEN Comma(c4) \o K_gid \o Dec(self.gid.v) ELSE c4
                  : c4 \in {IF self.uid # None
                            THEN Comma(c3) \o K_uid \o Dec(self.uid.v) ELSE c3
                  : c3 \in {IF self.mode # None
                            THEN Comma(c2) \o K_mode \o Oct04(self.mode.v)
                            ELSE c2
                  : c2 \in {IF self.nr_inodes # None
                            THEN Comma(c1) \o K_nr_inodes
                                 \o Dec(self.nr_inodes.v)
                            ELSE c1
                  : c1 \in {CASE self.size.tag = "Auto" -> <<>>
                              [] self.size.tag = "Bytes" ->
                                    K_size \o Dec(self.size.v)
                              [] self.size.tag = "Blocks" ->
                                    K_nr_blocks \o Dec(self.size.v)}}}}} })

InitTmpfs ==
    /\ base = TmpfsNew
    /\ input = Idle
    /\ pc = "build"
    /\ out = Idle /\ ret = Idle
    /\ content = Idle /\ data = Idle /\ row_num = Idle /\ exhausted = Idle
    /\ items = Idle /\ path = Idle /\ flags = Idle /\ self_flags = Idle
    /\ mounts = Idle /\ cwd = Idle /\ mount_path = Idle /\ found = Idle
    /\ submitted = Idle

tmpfsFrame ==
    <<ret, content, data, row_num, exhausted, items, path, flags, self_flags,
      mounts, cwd, mount_path, found, submitted>>

\* one of the setters is called; input keeps the call
TmpfsCall ==
    /\ pc = "build"
    /\ \E c \in TmpfsCalls :
          /\ base' = TmpfsSet(base, c)
          /\ input' = c
    /\ UNCHANGED <<pc, out>>
    /\ UNCHANGED tmpfsFrame

\* self.format_options()
FormatOptions ==
    /\ pc = "build"
    /\ out' = format_options(base)
    /\ pc' = "formatted"
    /\ UNCHANGED <<base, input>>
    /\ UNCHANGED tmpfsFrame

NextTmpfs == TmpfsCall \/ FormatOptions

SpecTmpfs == InitTmpfs /\ [][NextTmpfs]_vars

\* the key=value items of the options that are set, in the fixed order
TmpfsItems(t) ==
    SelectSeq(
        << IF t.size.tag = "Bytes" THEN K_size \o Dec(t.size.v)
           ELSE IF t.size.tag = "Blocks" THEN K_nr_blocks \o Dec(t.size.v)
           ELSE <<>>,
           IF t.nr_inodes = None THEN <<>>
           ELSE K_nr_inodes \o Dec(t.nr_inodes.v),
           IF t.mode = None THEN <<>> ELSE K_mode \o Oct04(t.mode.v),
           IF t.uid = None THEN <<>> ELSE K_uid \o Dec(t.uid.v),
           IF t.gid = None THEN <<>> ELSE K_gid \o Dec(t.gid.v) >>,
        LAMBDA item : item # <<>>)

\* the option a setter sets
OptionOf(c) == IF c.m \in {"size_bytes", "size_blocks"} THEN "size" ELSE c.m

\* the options formatted are the items of the set options joined by single
\* commas, with no comma at either end and no two in a row
WellFormatted(t, o) ==
    /\ o = JoinWith(TmpfsItems(t), <<COMMA>>)
    /\ (t = TmpfsNew) => o = <<>>
    /\ o # <<>> => (o[1] # COMMA /\ o[Len(o)] # COMMA)
    /\ \A i \in 1..(Len(o) - 1) : ~(o[i] = COMMA /\ o[i + 1] = COMMA)

\* C22 as stated: the result is the items of the set options in the fixed
\* order, joined by single commas, and any two setter calls give the same
\* output in either order.
C22_FormatOptionsAnyOrder ==
    [][/\ pc' = "formatted" => WellFormatted(base', out')
       /\ (pc = "build" /\ pc' = "build") =>
              \A d \in TmpfsCalls :
                  format_options(TmpfsSet(base', d))
                      = format_options(TmpfsSet(TmpfsSet(base, d), input'))]_vars

\* C22: the result is the items of the set options in the fixed order,
\* joined by single commas, and two setter calls for different options give
\* the same output in either order.
C22_FormatOptions ==
    [][/\ pc' = "formatted" => WellFormatted(base', out')
       /\ (pc = "build" /\ pc' = "build") =>
              \A d \in TmpfsCalls :
                  OptionOf(d) # OptionOf(input') =>
                      format_options(TmpfsSet(base', d))
                          = format_options(
                                TmpfsSet(TmpfsSet(base, d), input'))]_vars

\* all five options set, as in test_tmpfs_options
C22_Witness ==
    /\ pc = "formatted"
    /\ base = Tmpfs([tag |-> "Bytes", v |-> 1048576], Some(1024), Some(1023),
                    Some(1000), Some(1000))
    /\ out = <<115, 105, 122, 101, 61, 49, 48, 52, 56, 53, 55, 54, 44, 110, 114, 95, 105, 110, 111, 100, 101, 115, 61, 49, 48, 50, 52, 44, 109, 111, 100, 101, 61, 48, 49, 55, 55, 55, 44, 117, 105, 100, 61, 49, 48, 48, 48, 44, 103, 105, 100, 61, 49, 48, 48, 48>>

---------------------------------------------------------------------------
(* The device numbers of a row *)

\* third tokens: with one ':' between two numerals, without ':', with
\* nothing on one side of it, with two of them, with a letter
DevTokens ==
    { <<48, 58, 52>>,
      <<56, 58, 49, 54>>,
      <<48, 52>>,
      <<55>>,
      <<48, 58>>,
      <<58, 52>>,
      <<49, 58, 50, 58, 51>>,
      <<48, 58, 52, 120>>,
      <<97, 58, 52>> }

\* what follows the third token, with ':' in none, or in one, of the tokens
DevTails ==
    { <<47, 32, 47, 98, 32, 114, 119, 32, 45, 32, 116, 32, 115, 32, 114, 119>>,
      <<47, 32, 47, 97, 58, 55, 32, 47, 32, 47, 98, 32, 114, 119, 32, 45, 32, 116, 32, 115, 32, 114, 119>>,
      <<55, 32, 47, 32, 47, 98, 32, 114, 119, 32, 45, 32, 116, 32, 115, 32, 114, 119>>,
      <<47, 32, 47, 98, 58, 49, 32, 114, 119, 32, 45, 32, 116, 32, 115, 32, 114, 119>>,
      <<47, 32, 47, 98, 32, 114, 119, 32, 120, 58, 49, 32, 45, 32, 116, 32, 115, 32, 114, 119>>,
      <<47, 32, 47, 98, 32, 114, 119, 32, 45, 32, 116, 32, 115, 58, 50, 32, 114, 119>> }

\* the row "19 24 <dev> <tail>"
DevRow(in) == <<49, 57, SP, 50, 52, SP>> \o in.dev \o <<SP>> \o in.tail

InitDev ==
    /\ input \in [dev : DevTokens, tail : DevTails]
    /\ pc = "row"
    /\ content = Idle /\ out = Idle /\ ret = Idle
    /\ data = Idle /\ row_num = Idle /\ exhausted = Idle /\ items = Idle
    /\ path = Idle /\ flags = Idle /\ self_flags = Idle /\ mounts = Idle
    /\ cwd = Idle /\ mount_path = Idle /\ found = Idle /\ submitted = Idle
    /\ base = Idle

\* parse_mount_point(row)
ParseDevRow ==
    /\ pc = "row"
    /\ content' = DevRow(input)
    /\ ret' = parse_mount_point(DevRow(input))
    /\ pc' = "parsed"
    /\ UNCHANGED <<out, input, data, row_num, exhausted, items, path, flags,
                   self_flags, mounts, cwd, mount_path, found, submitted,
                   base>>

NextDev == ParseDevRow

SpecDev == InitDev /\ [][NextDev]_vars

\* the places of ':' in a token
Colons(t) == {i \in 1..Len(t) : t[i] = COLON}

\* a decimal numeral without leading zeros, which is its own value
IsNumeral(t) ==
    /\ t # <<>>
    /\ \A i \in 1..Len(t) : t[i] \in D0..D9
    /\ Len(t) > 1 => t[1] # D0

\* C23: a record is returned only when the third token holds a ':' with a
\* numeral on either side, and its major and minor are those two numerals;
\* a row whose third token holds no ':' gives a ParseError.
C23_DeviceFromThirdToken ==
    pc = "parsed" =>
        /\ Colons(input.dev) = {} => ret.tag = "Err"
        /\ ret.tag = "Ok" =>
              \E k \in Colons(input.dev) :
                  /\ \A j \in Colons(input.dev) : k <= j
                  /\ IsNumeral(SubSeq(input.dev, 1, k - 1))
                  /\ IsNumeral(SubSeq(input.dev, k + 1, Len(input.dev)))
                  /\ ret.v.v.major = SubSeq(input.dev, 1, k - 1)
                  /\ ret.v.v.minor = SubSeq(input.dev, k + 1, Len(input.dev))

---------------------------------------------------------------------------
(* Escapes in the fields of a row *)

\* field texts with octal escapes, each with the bytes it stands for and
\* the flags those bytes name as mount options
EscTexts ==
    { [text |-> <<97, 92, 48, 52, 48, 98>>,
       decoded |-> <<97, 32, 98>>, flags |-> {}],
      [text |-> <<92, 49, 51, 52>>,
       decoded |-> <<92>>, flags |-> {}],
      [text |-> <<114, 111, 92, 48, 53, 52, 110, 111, 100, 101, 118>>,
       decoded |-> <<114, 111, 44, 110, 111, 100, 101, 118>>, flags |-> {MS_RDONLY, MS_NODEV}],
      [text |-> <<114, 92, 49, 53, 55>>,
       decoded |-> <<114, 111>>, flags |-> {MS_RDONLY}],
      [text |-> <<92, 48, 53, 53, 92, 48, 52, 48>>,
       decoded |-> <<45, 32>>, flags |-> {}],
      [text |-> <<92, 48, 54, 49>>,
       decoded |-> <<49>>, flags |-> {}],
      [text |-> <<120, 92, 48, 49, 49>>,
       decoded |-> <<120, 9>>, flags |-> {}],
      [text |-> <<92, 49, 51, 52, 48, 52, 48>>,
       decoded |-> <<92, 48, 52, 48>>, flags |-> {}] }

EscFields ==
    <<"mount_id", "parent_id", "major", "minor", "root", "mount_point",
      "mount_options", "optional_fields", "fstype", "mount_source",
      "super_options">>

\* the fields of the row "19 24 8:6 /r /m rw x:1 - t s rw"
PlainFields ==
    [ mount_id |-> <<49, 57>>,
      parent_id |-> <<50, 52>>,
      major |-> <<56>>,
      minor |-> <<54>>,
      root |-> <<47, 114>>,
      mount_point |-> <<47, 109>>,
      mount_options |-> <<114, 119>>,
      optional_fields |-> <<120, 58, 49>>,
      fstype |-> <<116>>,
      mount_source |-> <<115>>,
      super_options |-> <<114, 119>> ]

\* the row with the text put in place of one field
EscRow(in) ==
    LET f == [PlainFields EXCEPT ![in.field] = in.esc.text]
    IN  JoinWith(<<f.mount_id, f.parent_id, f.major \o <<COLON>> \o f.minor,
                   f.root, f.mount_point, f.mount_options, f.optional_fields,
                   <<DASH>>, f.fstype, f.mount_source, f.super_options>>,
                 <<SP>>)

InitEsc ==
    /\ input \in [field : {EscFields[i] : i \in 1..11}, esc : EscTexts]
    /\ pc = "row"
    /\ content = Idle /\ out = Idle /\ ret = Idle
    /\ data = Idle /\ row_num = Idle /\ exhausted = Idle /\ items = Idle
    /\ path = Idle /\ flags = Idle /\ self_flags = Idle /\ mounts = Idle
    /\ cwd = Idle /\ mount_path = Idle /\ found = Idle /\ submitted = Idle
    /\ base = Idle

\* parse_mount_point(row), and get_mount_flags of the record it gives
ParseEscRow ==
    /\ pc = "row"
    /\ content' = EscRow(input)
    /\ ret' = parse_mount_point(EscRow(input))
    /\ out' = IF ret'.tag = "Ok" THEN get_mount_flags(ret'.v.v) ELSE out
    /\ pc' = "parsed"
    /\ UNCHANGED <<input, data, row_num, exhausted, items, path, flags,
                   self_flags, mounts, cwd, mount_path, found, submitted,
                   base>>

NextEsc == ParseEscRow

SpecEsc == InitEsc /\ [][NextEsc]_vars

IntegerFields == {"mount_id", "parent_id", "major", "minor"}

\* C24: an escape in one of the seven text fields is decoded in that field
\* of the record, a decoded space or "- " splits nothing and the other
\* fields are as without it, and the flags are those of the decoded
\* mount_options; an escape in an integer field is not decoded, the row
\* fails with "Cannot parse integer".
C24_FieldsDecodedAfterSplit ==
    pc = "parsed" =>
        IF input.field \in IntegerFields
        THEN /\ ret.tag = "Err"
             /\ ret.e.msg = "Cannot parse integer"
        ELSE /\ ret.tag = "Ok"
             /\ \A i \in 1..11 :
                   ret.v.v[EscFields[i]] =
                       IF EscFields[i] = input.field THEN input.esc.decoded
                       ELSE PlainFields[EscFields[i]]
             /\ out = IF input.field = "mount_options" THEN input.esc.flags
                      ELSE {}

\* mount_options written "ro\054nodev": the record holds "ro,nodev" and its
\* flags are read-only and nodev
C24_Witness ==
    /\ pc = "parsed"
    /\ input.field = "mount_options"
    /\ input.esc.text = <<114, 111, 92, 48, 53, 52, 110, 111, 100, 101, 118>>
    /\ ret.tag = "Ok"
    /\ ret.v.v.mount_options = <<114, 111, 44, 110, 111, 100, 101, 118>>
    /\ out = {MS_RDONLY, MS_NODEV}

----------------------------------------------------------------------------
(* The two loops of unescape_octals, one iteration at a time *)

MaxChunks == 3

\* the pieces of the fields decoded: "\134", "040", "\040", a backslash,
\* a digit that is not octal, a backslash with two digits
Chunks ==
    { <<BSLASH, D1, 51, D4>>, <<D0, D4, D0>>, <<BSLASH, D0, D4, D0>>,
      <<BSLASH>>, <<D8>>, <<BSLASH, D7, D7>> }

RECURSIVE Concat(_)
Concat(ss) == IF ss = <<>> THEN <<>> ELSE ss[1] \o Concat(Tail(ss))

\* the body of the second loop run once with no escape recognised
CopyStep_plain(bytes, i, v) == [i |-> i + 1, v |-> Append(v, bytes[i + 1])]

\* the body of the second loop: the index and the vector it leaves
CopyStep(bytes, i, v) ==
    IF is_octal_encoding(From(bytes, i))
    THEN [i |-> i + 4, v |-> Append(v, parse_octal(From(bytes, i + 1)))]
    ELSE [i |-> i + 1, v |-> Append(v, bytes[i + 1])]

\* s: the field; row_num holds the index i and data the vector v
InitPass ==
    /\ input \in SeqsUpTo(Chunks, MaxChunks)
    /\ content = Concat(input)
    /\ pc = "find"
    /\ row_num = 0 /\ data = <<>>
    /\ out = Idle /\ ret = Idle
    /\ exhausted = Idle /\ items = Idle
    /\ path = Idle /\ flags = Idle /\ self_flags = Idle /\ mounts = Idle
    /\ cwd = Idle /\ mount_path = Idle /\ found = Idle /\ submitted = Idle
    /\ base = Idle

passFrame ==
    <<input, content, exhausted, items, path, flags, self_flags, mounts,
      cwd, mount_path, found, submitted, base>>

\* the first loop, and either the borrowed return or the copy of the bytes
\* before the first escape
PassFind ==
    /\ pc = "find"
    /\ \E i \in {FirstEscape(content, 0)} :
          IF ~(i < Len(content))
          THEN /\ out' = content
               /\ pc' = "done"
               /\ UNCHANGED <<row_num, data>>
          ELSE /\ row_num' = i
               /\ data' = Upto(content, i)
               /\ pc' = "copy"
               /\ out' = out
    /\ UNCHANGED <<ret, passFrame>>

\* one iteration of the second loop
PassCopy ==
    /\ pc = "copy"
    /\ row_num < Len(content)
    /\ row_num' = CopyStep(content, row_num, data).i
    /\ data' = CopyStep(content, row_num, data).v
    /\ UNCHANGED <<pc, out, ret, passFrame>>

\* the second loop ends: the vector is returned
PassReturn ==
    /\ pc = "copy"
    /\ ~(row_num < Len(content))
    /\ out' = data
    /\ pc' = "done"
    /\ UNCHANGED <<row_num, data, ret, passFrame>>

\* the caller decodes what it got once more
PassAgain ==
    /\ pc = "done"
    /\ ret' = unescape_octals(out)
    /\ pc' = "again"
    /\ UNCHANGED <<row_num, data, out, passFrame>>

NextPass == PassFind \/ PassCopy \/ PassReturn \/ PassAgain

SpecPass == InitPass /\ [][NextPass]_vars

\* the escapes of s that start before the 0-based index i
EscapesBefore(s, i) == {e \in EscapeStarts(s) : e <= i}

\* "\134040"
Escaped040 == <<BSLASH, D1, 51, D4, D0, D4, D0>>

\* C28: the index only moves forward over the field: by four at an escape,
\* which adds its one byte to the output, and by one at any other byte,
\* which is copied; what was written is never read or changed again; the
\* output is three bytes shorter than the field for each escape in it, on
\* the way and at the end; "\134040" gives "\040", which a second decoding
\* turns into a space.
C28_SinglePass ==
    [][/\ content' = content
       /\ (pc = "copy" /\ pc' = "copy") =>
             (IF EscapeAt(content, row_num + 1)
              THEN /\ row_num' = row_num + 4
                   /\ data' = Append(data, OctalValue(content, row_num + 1))
              ELSE /\ row_num' = row_num + 1
                   /\ data' = Append(data, content[row_num + 1]))
       /\ pc' = "copy" =>
             (/\ row_num' <= Len(content)
              /\ Len(data') = row_num'
                     - 3 * Cardinality(EscapesBefore(content, row_num')))
       /\ pc' = "done" =>
             (/\ out' = unescape_octals(content)
              /\ Len(out') = Len(content)
                     - 3 * Cardinality(EscapeStarts(content)))
       /\ (pc' = "again" /\ content = Escaped040) =>
             (/\ out' = <<BSLASH, D0, D4, D0>>
              /\ ret' = <<SP>>)
      ]_vars

\* "\134040" decoded to "\040" and that decoded again to a space
C28_Witness ==
    /\ pc = "again"
    /\ content = Escaped040
    /\ out = <<BSLASH, D0, D4, D0>>
    /\ ret = <<SP>>

----------------------------------------------------------------------------
(* Rows that go on after super_options *)

MaxExtra == 2

\* the first ten fields: "19 24 8:6 /r /m rw x:1 - t s" and the same with
\* no optional field
ExtraHeads ==
    { JoinWith(<<PlainFields.mount_id, PlainFields.parent_id, <<56, COLON, 54>>,
                 PlainFields.root, PlainFields.mount_point,
                 PlainFields.mount_options>> \o o \o
               <<<<DASH>>, PlainFields.fstype, PlainFields.mount_source>>,
               <<SP>>)
      : o \in {<<>>, <<T_x1>>} }

\* the super_options of the row, as written and as the record holds them:
\* "rw", "rw\054a" and "rw" with a carriage return after it
SuperTokens ==
    { [text |-> W_rw, decoded |-> W_rw],
      [text |-> W_rw \o <<BSLASH, D0, 53, D4, 97>>,
       decoded |-> W_rw \o <<COMMA, 97>>],
      [text |-> W_rw \o <<CR>>, decoded |-> W_rw \o <<CR>>] }

\* what follows super_options: "x", "-", "x:1", "\040", "#", a carriage
\* return and nothing (two spaces in a row)
ExtraTokens ==
    { <<120>>, <<DASH>>, T_x1, <<BSLASH, D0, D4, D0>>, <<HASH>>, <<CR>>, <<>> }

\* the row cut after super_options
CutRow(in) == in.head \o <<SP>> \o in.super.text

\* the row with the tokens after super_options
ExtraRow(in) ==
    IF in.extra = <<>> THEN CutRow(in)
    ELSE CutRow(in) \o <<SP>> \o JoinWith(in.extra, <<SP>>)

InitExtra ==
    /\ input \in [head : ExtraHeads, super : SuperTokens,
                  extra : SeqsUpTo(ExtraTokens, MaxExtra)]
    /\ pc = "row"
    /\ content = Idle /\ out = Idle /\ ret = Idle
    /\ data = Idle /\ row_num = Idle /\ exhausted = Idle /\ items = Idle
    /\ path = Idle /\ flags = Idle /\ self_flags = Idle /\ mounts = Idle
    /\ cwd = Idle /\ mount_path = Idle /\ found = Idle /\ submitted = Idle
    /\ base = Idle

\* parse_mount_point(row), and of the row cut after super_options
ParseExtraRow ==
    /\ pc = "row"
    /\ content' = ExtraRow(input)
    /\ ret' = parse_mount_point(ExtraRow(input))
    /\ out' = parse_mount_point(CutRow(input))
    /\ pc' = "parsed"
    /\ UNCHANGED <<input, data, row_num, exhausted, items, path, flags,
                   self_flags, mounts, cwd, mount_path, found, submitted,
                   base>>

NextExtra == ParseExtraRow

SpecExtra == InitExtra /\ [][NextExtra]_vars

SuperEndsInCR(t) == t # <<>> /\ t[Len(t)] = CR

----------------------------------------------------------------------------
(* Overlay: reading the options string back *)

\* the backslashes that stand in a row right before position i of s
RunBefore(s, i) ==
    Cardinality({k \in 1..(i - 1) : \A j \in k..(i - 1) : s[j] = BSLASH})

\* the byte at position i is escaped: an odd run of backslashes is before it
IsEscaped(s, i) == RunBefore(s, i) % 2 = 1

\* the positions of the byte b in s that no backslash escapes
Unescaped(s, b) == {i \in 1..Len(s) : s[i] = b /\ ~IsEscaped(s, i)}

\* s cut at the unescaped bytes b
RECURSIVE SplitAt(_, _)
SplitAt(s, b) ==
    IF Unescaped(s, b) = {} THEN <<s>>
    ELSE LET i == CHOOSE i \in Unescaped(s, b) :
                      \A j \in Unescaped(s, b) : i <= j
         IN  <<SubSeq(s, 1, i - 1)>> \o SplitAt(SubSeq(s, i + 1, Len(s)), b)

\* s without its escaping backslashes
RemoveEscapes(s) ==
    LET keep == SelectSeq([i \in 1..Len(s) |-> i],
                          LAMBDA i : i \notin Unescaped(s, BSLASH))
    IN  [k \in 1..Len(keep) |-> s[keep[k]]]

\* the bytes of the paths of an overlay that append_escape treats
SpecialBytes(o) ==
    LET all == Concat(o.lowerdirs)
                 \o (IF o.upperdir # None THEN o.upperdir.v ELSE <<>>)
                 \o (IF o.workdir # None THEN o.workdir.v ELSE <<>>)
    IN  Cardinality({i \in 1..Len(all) : all[i] \in {BSLASH, COLON, COMMA}})

\* the value of an item "key=value" of the options, its escapes removed
ValueOf(item, key) == RemoveEscapes(SubSeq(item, Len(key) + 1, Len(item)))

\* C30: with one or more lowerdirs, the escaped bytes of the options are
\* the ':', ',' and '\' of the paths, one escape for each; the ':' left
\* unescaped are one fewer than the lowerdirs, the ',' left unescaped none
\* for a read-only overlay and two for a writable one; cutting the options
\* at these and removing the escapes gives back the lowerdirs, the upperdir
\* and the workdir.
C30_OptionsReadBack ==
    (pc = "mounted" /\ Len(base.lowerdirs) >= 1) =>
        \A s \in {submitted.data} : \A items_ \in {SplitAt(s, COMMA)} :
            /\ \A i \in 1..Len(s) :
                   IsEscaped(s, i) => s[i] \in {BSLASH, COLON, COMMA}
            /\ Cardinality(Unescaped(s, BSLASH)) = SpecialBytes(base)
            /\ Cardinality(Unescaped(s, COLON)) = Len(base.lowerdirs) - 1
            /\ Cardinality(Unescaped(s, COMMA))
                   = IF base.upperdir # None THEN 2 ELSE 0
            /\ IsPrefix(W_lowerdir, items_[1])
            /\ \A dirs \in {SplitAt(SubSeq(items_[1], Len(W_lowerdir) + 1,
                                           Len(items_[1])), COLON)} :
                   [i \in 1..Len(dirs) |-> RemoveEscapes(dirs[i])]
                       = base.lowerdirs
            /\ base.upperdir # None =>
                   (/\ Len(items_) = 3
                    /\ IsPrefix(Tail(W_upperdir), items_[2])
                    /\ ValueOf(items_[2], Tail(W_upperdir)) = base.upperdir.v
                    /\ IsPrefix(Tail(W_workdir), items_[3])
                    /\ ValueOf(items_[3], Tail(W_workdir)) = base.workdir.v)

\* lowerdirs "a\" and "/:,", upperdir "\a" and workdir "/a,b": the options
\* are "lowerdir=a\\:/\:\,,upperdir=\\a,workdir=/a\,b"
C30_Witness ==
    /\ pc = "mounted"
    /\ base.lowerdirs = <<<<97, BSLASH>>, <<SLASH, COLON, COMMA>>>>
    /\ base.upperdir = Some(<<BSLASH, 97>>)
    /\ base.workdir = Some(<<SLASH, 97, COMMA, 98>>)
    /\ submitted.data =
           W_lowerdir \o <<97, BSLASH, BSLASH, COLON,
                           SLASH, BSLASH, COLON, BSLASH, COMMA>>
             \o W_upperdir \o <<BSLASH, BSLASH, 97>>
             \o W_workdir \o <<SLASH, 97, BSLASH, COMMA, 98>>
    /\ Cardinality(Unescaped(submitted.data, COLON)) = 1
    /\ Cardinality(Unescaped(submitted.data, COMMA)) = 2

====
